---- MODULE Spec2Model ----
(***************************************************************************)
(* A model of optlib/gbs.py: the generalized Black-Scholes kernel, the     *)
(* Bjerksund-Stensland American approximations, the implied-volatility     *)
(* solvers and the public facade.                                          *)
(*                                                                         *)
(* Numbers.  Python floats are modelled in decimal fixed point with three  *)
(* places: the integer n stands for n/1000 ("milli").  Prices (fs, x and   *)
(* the two legs of a spread) reach 2147483248, which times 1000 does not   *)
(* fit the model's integers, so a price is a decimal literal               *)
(* [i |-> integer part, m |-> thousandths] wherever it is validated, and   *)
(* is converted to fixed point only for a valuation whose operands fit     *)
(* (InWindow).  A valuation outside that window is the opaque tuple Wide.  *)
(***************************************************************************)
EXTENDS Integers, Sequences, FiniteSets, TLC

Scale == 10 * 10 * 10

(***************************************************************************)
(* Fixed-point arithmetic (the float operators of the source).             *)
(***************************************************************************)
Abs(a) == IF a < 0 THEN -a ELSE a

Max(a, b) == IF b > a THEN b ELSE a

Min(a, b) == IF b < a THEN b ELSE a

\* a / b rounded to the nearest integer, b > 0
RDiv(a, b) ==
    LET q == a \div b
        r == a - q * b
    IN  IF 2 * r >= b THEN q + 1 ELSE q

\* float *: the product of two milli numbers
Mul(a, b) == RDiv(a * b, Scale)

\* float /: the quotient of two milli numbers, b # 0
Div(a, b) == IF b > 0 THEN RDiv(a * Scale, b) ELSE RDiv((-a) * Scale, -b)

\* a * b / c on milli numbers, c # 0
MulDiv(a, b, c) == IF c > 0 THEN RDiv(a * b, c) ELSE RDiv((-a) * b, -c)

(***************************************************************************)
(* Call(f, a) is the call of the function named f on the arguments a.      *)
(* Every function of the library and of its numeric imports is called      *)
(* through it, as val_fn is in the searches.                               *)
(***************************************************************************)
RECURSIVE Call(_, _)

Sqrt(a) == Call("math.sqrt", << a >>)

Exp(a) == Call("math.exp", << a >>)

Ln(a) == Call("math.log", << a >>)

Pow(a, p) == Call("**", << a, p >>)

NormPdf(d) == Call("norm.pdf", << d >>)

NormCdf(d) == Call("norm.cdf", << d >>)

Asin(a) == Call("math.asin", << a >>)

RECURSIVE SqrtIter(_, _)
SqrtIter(n, g) ==
    LET h == (g + n \div g) \div 2
    IN  IF h >= g THEN g ELSE SqrtIter(n, h)

\* floor of the integer square root
ISqrt(n) == IF n <= 0 THEN 0 ELSE SqrtIter(n, 46340)

\* math.sqrt of a milli number a >= 0
math_sqrt(a) == ISqrt(a * Scale)

\* e^0 .. e^14 in milli
EPow == << 2718, 7389, 20086, 54598, 148413, 403429, 1096633, 2980958,
           8103084, 22026466, 59874142, 162754791, 442413392, 1202604284 >>

RECURSIVE ExpSeries(_, _, _, _)
\* sum of the Taylor terms of e^(f/1000) from term k on, in micro
ExpSeries(f, k, term, acc) ==
    IF term = 0 THEN acc
    ELSE ExpSeries(f, k + 1, (term * f) \div ((k + 1) * Scale), acc + term)

\* math.exp of a milli number
math_exp(a) ==
    LET n == a \div Scale
        f == a - n * Scale
        m == ExpSeries(f, 0, Scale * Scale, 0)
    IN  IF n < -14 THEN 0
        ELSE IF n < 0 THEN RDiv(m, EPow[-n])
        ELSE IF n = 0 THEN RDiv(m, Scale)
        ELSE IF n <= 6 THEN RDiv(RDiv(m, Scale) * EPow[n], Scale)
        ELSE RDiv(m, Scale) * RDiv(EPow[n], Scale)

RECURSIVE AtanhSeries(_, _, _, _)
\* z + z^3/3 + z^5/5 + ... in units of 1/10000, from the term of degree d on
AtanhSeries(z2, d, pow, acc) ==
    IF pow = 0 THEN acc
    ELSE AtanhSeries(z2, d + 2, (pow * z2) \div 10000, acc + pow \div d)

RECURSIVE LnMicro(_)
\* natural logarithm, in micro, of a number y > 0 given in micro
LnMicro(y) ==
    IF y >= 2 * Scale * Scale THEN 693147 + LnMicro(y \div 2)
    ELSE IF y < Scale * Scale THEN LnMicro(2 * y) - 693147
    ELSE LET num == y - Scale * Scale
             den == (y + Scale * Scale) \div 100
             z == (num * 100) \div den
             z2 == (z * z) \div 10000
         IN  2 * 100 * AtanhSeries(z2, 1, z, 0)

\* math.log of a milli number a > 0
math_log(a) ==
    IF a <= 2 * Scale * Scale
    THEN RDiv(LnMicro(a * Scale) + Scale * Scale * 100, Scale) - Scale * 100
    ELSE RDiv(LnMicro(a) + 6907755, Scale)

\* a ** p for a milli base a > 0 and a milli exponent p
math_pow(a, p) == Exp(Mul(p, Ln(a)))

\* 1/sqrt(2*pi) in milli
InvSqrt2Pi == 399

\* scipy.stats.norm.pdf
norm_pdf(d) ==
    IF Abs(d) > 10 * Scale THEN 0
    ELSE Mul(Exp(-RDiv(d * d, 2 * Scale)), InvSqrt2Pi)

\* the polynomial of Abramowitz & Stegun 26.2.17 at t, in milli
CdfPoly(t) ==
    Mul(t, 319 + Mul(t, -357 + Mul(t, 1781 + Mul(t, -1821 + Mul(t, 1330)))))

\* scipy.stats.norm.cdf
norm_cdf(d) ==
    IF d > 6 * Scale THEN Scale
    ELSE IF d < -6 * Scale THEN 0
    ELSE LET a == Abs(d)
             t == Div(Scale, Scale + Mul(232, a))
             up == Scale - Mul(NormPdf(a), CdfPoly(t))
         IN  IF d >= 0 THEN up ELSE Scale - up

(***************************************************************************)
(* Prices as decimal literals, and the limits of _GBS_Limits.              *)
(***************************************************************************)
Dec(i, m) == [i |-> i, m |-> m]

\* a < b on decimal literals (m is in 0..999, so i is the floor)
DLt(a, b) == a.i < b.i \/ (a.i = b.i /\ a.m < b.m)

\* the decimal literal of a milli number
ToDec(n) == LET q == n \div Scale IN Dec(q, n - q * Scale)

\* the milli number of a decimal literal that fits
ToFix(d) == d.i * Scale + d.m

MAX32 == 2147483248

MIN_T == 1

MIN_X == Dec(0, 10)

MIN_FS == Dec(0, 10)

MIN_V == 5

MAX_T == 100 * Scale

MAX_X == Dec(MAX32, 0)

MAX_FS == Dec(MAX32, 0)

MIN_TA == 0

MIN_b == -Scale

MIN_r == -Scale

MAX_b == Scale

MAX_r == Scale

MAX_V == Scale

(***************************************************************************)
(* Outcomes of a call: a returned 6-tuple, a returned volatility, or the   *)
(* exception that ends it.  An error message is modelled by the field it   *)
(* names and the values its format string prints.                          *)
(***************************************************************************)
Returned(val) == [kind |-> "tuple", val |-> val]

Raised(kind, field, shown) == [kind |-> kind, field |-> field, shown |-> shown]

Passed == [kind |-> "ok"]

NoOutcome == [kind |-> "none"]

\* an outcome the fixed point cannot decide
Unmodelled == [kind |-> "unmodelled"]

\* the 6-tuple of a valuation whose operands do not fit the fixed point
Wide == << "wide" >>

\* _test_option_type
_test_option_type(option_type) ==
    IF option_type # "c" /\ option_type # "p"
    THEN Raised("GBS_InputError", "option_type", << option_type >>)
    ELSE Passed

\* the validation with the limits themselves rejected
_gbs_test_inputs_open(option_type, fs, x, t, r, b, v) ==
    IF _test_option_type(option_type).kind # "ok"
    THEN _test_option_type(option_type)
    ELSE IF ~DLt(MIN_X, x) \/ ~DLt(x, MAX_X)
    THEN Raised("GBS_InputError", "x", << MIN_X, MAX_X >>)
    ELSE IF ~DLt(MIN_FS, fs) \/ ~DLt(fs, MAX_FS)
    THEN Raised("GBS_InputError", "fs", << MIN_FS, MAX_FS >>)
    ELSE IF t <= MIN_T \/ t >= MAX_T
    THEN Raised("GBS_InputError", "t", << t, MIN_T, MAX_T >>)
    ELSE IF b <= MIN_b \/ b >= MAX_b
    THEN Raised("GBS_InputError", "b", << b, MIN_b, MAX_b >>)
    ELSE IF r <= MIN_r \/ r >= MAX_r
    THEN Raised("GBS_InputError", "r", << r, MIN_r, MAX_r >>)
    ELSE IF v <= MIN_V \/ v >= MAX_V
    THEN Raised("GBS_InputError", "v", << v, MIN_V, MAX_V >>)
    ELSE Passed

\* _gbs_test_inputs with the strict comparisons of the source
_gbs_test_inputs(option_type, fs, x, t, r, b, v) ==
    IF _test_option_type(option_type).kind # "ok"
    THEN _test_option_type(option_type)
    ELSE IF DLt(x, MIN_X) \/ DLt(MAX_X, x)
    THEN Raised("GBS_InputError", "x", << MIN_X, MAX_X >>)
    ELSE IF DLt(fs, MIN_FS) \/ DLt(MAX_FS, fs)
    THEN Raised("GBS_InputError", "fs", << MIN_FS, MAX_FS >>)
    ELSE IF t < MIN_T \/ t > MAX_T
    THEN Raised("GBS_InputError", "t", << t, MIN_T, MAX_T >>)
    ELSE IF b < MIN_b \/ b > MAX_b
    THEN Raised("GBS_InputError", "b", << b, MIN_b, MAX_b >>)
    ELSE IF r < MIN_r \/ r > MAX_r
    THEN Raised("GBS_InputError", "r", << r, MIN_r, MAX_r >>)
    ELSE IF v < MIN_V \/ v > MAX_V
    THEN Raised("GBS_InputError", "v", << v, MIN_V, MAX_V >>)
    ELSE Passed

(***************************************************************************)
(* The window of operands on which the fixed-point valuation is computed.  *)
(***************************************************************************)
WinPriceLo == Scale \div 2

WinPriceHi == 2 * Scale

WinTLo == Scale \div 10

WinTHi == 2 * Scale

InWindow(fs, x, t) ==
    /\ ~DLt(fs, ToDec(WinPriceLo)) /\ ~DLt(ToDec(WinPriceHi), fs)
    /\ ~DLt(x, ToDec(WinPriceLo)) /\ ~DLt(ToDec(WinPriceHi), x)
    /\ t >= WinTLo /\ t <= WinTHi

\* the arithmetic of _gbs with the put valued on N(d1), N(d2) like the call
GbsTuplePutOnCallTails(option_type, fs, x, t, r, b, v) ==
    LET t__sqrt == Sqrt(t)
        d1 == Div(Ln(Div(fs, x)) + Mul(b + RDiv(Mul(v, v), 2), t), Mul(v, t__sqrt))
        d2 == d1 - Mul(v, t__sqrt)
        ebrt == Exp(Mul(b - r, t))
        ert == Exp(Mul(-r, t))
        gamma == Div(Mul(ebrt, NormPdf(d1)), Mul(Mul(fs, v), t__sqrt))
        vega == Mul(Mul(Mul(ebrt, fs), t__sqrt), NormPdf(d1))
    IN  IF option_type = "c"
        THEN << Mul(Mul(fs, ebrt), NormCdf(d1)) - Mul(Mul(x, ert), NormCdf(d2)),
                Mul(ebrt, NormCdf(d1)),
                gamma,
                Div(-Mul(Mul(Mul(fs, v), ebrt), NormPdf(d1)), 2 * t__sqrt)
                  - Mul(Mul(Mul(b - r, fs), ebrt), NormCdf(d1))
                  - Mul(Mul(Mul(r, x), ert), NormCdf(d2)),
                vega,
                Mul(Mul(Mul(x, t), ert), NormCdf(d2)) >>
        ELSE << Mul(Mul(x, ert), NormCdf(d2)) - Mul(Mul(fs, ebrt), NormCdf(d1)),
                -Mul(ebrt, NormCdf(-d1)),
                gamma,
                Div(-Mul(Mul(Mul(fs, v), ebrt), NormPdf(d1)), 2 * t__sqrt)
                  + Mul(Mul(Mul(b - r, fs), ebrt), NormCdf(-d1))
                  + Mul(Mul(Mul(r, x), ert), NormCdf(-d2)),
                vega,
                -Mul(Mul(Mul(x, t), ert), NormCdf(-d2)) >>

\* the arithmetic of _gbs on milli operands: value, delta, gamma, theta, vega, rho
GbsTuple(option_type, fs, x, t, r, b, v) ==
    LET t__sqrt == Sqrt(t)
        d1 == Div(Ln(Div(fs, x)) + Mul(b + RDiv(Mul(v, v), 2), t), Mul(v, t__sqrt))
        d2 == d1 - Mul(v, t__sqrt)
        ebrt == Exp(Mul(b - r, t))
        ert == Exp(Mul(-r, t))
        gamma == Div(Mul(ebrt, NormPdf(d1)), Mul(Mul(fs, v), t__sqrt))
        vega == Mul(Mul(Mul(ebrt, fs), t__sqrt), NormPdf(d1))
    IN  IF option_type = "c"
        THEN << Mul(Mul(fs, ebrt), NormCdf(d1)) - Mul(Mul(x, ert), NormCdf(d2)),
                Mul(ebrt, NormCdf(d1)),
                gamma,
                Div(-Mul(Mul(Mul(fs, v), ebrt), NormPdf(d1)), 2 * t__sqrt)
                  - Mul(Mul(Mul(b - r, fs), ebrt), NormCdf(d1))
                  - Mul(Mul(Mul(r, x), ert), NormCdf(d2)),
                vega,
                Mul(Mul(Mul(x, t), ert), NormCdf(d2)) >>
        ELSE << Mul(Mul(x, ert), NormCdf(-d2)) - Mul(Mul(fs, ebrt), NormCdf(-d1)),
                -Mul(ebrt, NormCdf(-d1)),
                gamma,
                Div(-Mul(Mul(Mul(fs, v), ebrt), NormPdf(d1)), 2 * t__sqrt)
                  + Mul(Mul(Mul(b - r, fs), ebrt), NormCdf(-d1))
                  + Mul(Mul(Mul(r, x), ert), NormCdf(-d2)),
                vega,
                -Mul(Mul(Mul(x, t), ert), NormCdf(-d2)) >>

\* _gbs: validation, then the valuation
_gbs(option_type, fs, x, t, r, b, v) ==
    LET chk == _gbs_test_inputs(option_type, fs, x, t, r, b, v)
    IN  IF chk.kind # "ok" THEN chk
        ELSE IF InWindow(fs, x, t)
        THEN Returned(GbsTuple(option_type, ToFix(fs), ToFix(x), t, r, b, v))
        ELSE Returned(Wide)

(***************************************************************************)
(* The American kernel.  A result carries `work`, the stages of the        *)
(* computation the call went through.                                      *)
(***************************************************************************)
RECURSIVE AsinSeries(_, _, _, _)
\* x + x^3/6 + 3x^5/40 + ... from the term of index k on
AsinSeries(x2, k, term, acc) ==
    IF term = 0 THEN acc
    ELSE AsinSeries(x2, k + 1,
                    (Mul(term, x2) * (2 * k + 1) * (2 * k + 1))
                        \div ((2 * k + 2) * (2 * k + 3)),
                    acc + term)

\* math.asin of a milli number in [0, 1]
math_asin(a) == IF a >= Scale THEN 1571 ELSE AsinSeries(Mul(a, a), 0, a, 0)

\* _cbnd: scipy's mvndst, the cumulative bivariate normal P(X <= a, Y <= b).
\* It is exact at rho = 0 (the product) and at rho = +1 / -1 (the Frechet
\* bounds); between them the model interpolates with weight 2*asin(rho)/pi,
\* which is exact at a = b = 0.
_cbnd(a, b, rho) ==
    LET pa == NormCdf(a)
        pb == NormCdf(b)
        ind == Mul(pa, pb)
        w == Mul(637, Asin(Abs(rho)))
    IN  IF rho >= 0
        THEN ind + Mul(w, Min(pa, pb) - ind)
        ELSE ind - Mul(w, ind - Max(0, pa + pb - Scale))

\* _phi
_phi(fs, t, gamma, h, i, r, b, v) ==
    LET vst == Mul(v, Sqrt(t))
        d1 == -Div(Ln(Div(fs, h)) + Mul(b + Mul(gamma - Scale \div 2, Mul(v, v)), t), vst)
        d2 == d1 - Div(2 * Ln(Div(i, fs)), vst)
        lambda1 == -r + Mul(gamma, b)
                      + Mul(Mul(Mul(Scale \div 2, gamma), gamma - Scale), Mul(v, v))
        kappa == Div(2 * b, Mul(v, v)) + (2 * gamma - Scale)
    IN  Mul(Mul(Exp(Mul(lambda1, t)), Pow(fs, gamma)),
            NormCdf(d1) - Mul(Pow(Div(i, fs), kappa), NormCdf(d2)))

\* _psi
_psi(fs, t2, gamma, h, i2, i1, t1, r, b, v) ==
    LET vsqrt_t1 == Mul(v, Sqrt(t1))
        vsqrt_t2 == Mul(v, Sqrt(t2))
        bgamma_t1 == Mul(b + Mul(gamma - Scale \div 2, Mul(v, v)), t1)
        bgamma_t2 == Mul(b + Mul(gamma - Scale \div 2, Mul(v, v)), t2)
        d1 == Div(Ln(Div(fs, i1)) + bgamma_t1, vsqrt_t1)
        d3 == Div(Ln(Div(fs, i1)) - bgamma_t1, vsqrt_t1)
        d2 == Div(Ln(Div(Mul(i2, i2), Mul(fs, i1))) + bgamma_t1, vsqrt_t1)
        d4 == Div(Ln(Div(Mul(i2, i2), Mul(fs, i1))) - bgamma_t1, vsqrt_t1)
        e1 == Div(Ln(Div(fs, h)) + bgamma_t2, vsqrt_t2)
        e2 == Div(Ln(Div(Mul(i2, i2), Mul(fs, h))) + bgamma_t2, vsqrt_t2)
        e3 == Div(Ln(Div(Mul(i1, i1), Mul(fs, h))) + bgamma_t2, vsqrt_t2)
        e4 == Div(Ln(Div(Mul(fs, Mul(i1, i1)), Mul(h, Mul(i2, i2)))) + bgamma_t2, vsqrt_t2)
        tau == Sqrt(Div(t1, t2))
        lambda1 == -r + Mul(gamma, b)
                      + Mul(Mul(Mul(Scale \div 2, gamma), gamma - Scale), Mul(v, v))
        kappa == Div(2 * b, Mul(v, v)) + (2 * gamma - Scale)
    IN  Mul(Mul(Exp(Mul(lambda1, t2)), Pow(fs, gamma)),
            Call("_cbnd", << -d1, -e1, tau >>)
              - Mul(Pow(Div(i2, fs), kappa), Call("_cbnd", << -d2, -e2, tau >>))
              - Mul(Pow(Div(i1, fs), kappa), Call("_cbnd", << -d3, -e3, -tau >>))
              + Mul(Pow(Div(i1, i2), kappa), Call("_cbnd", << -d4, -e4, -tau >>)))

WinAmPriceLo == (4 * Scale) \div 5

WinAmPriceHi == (5 * Scale) \div 4

WinAmTLo == Scale \div 4

WinAmTHi == Scale

WinAmVLo == (3 * Scale) \div 20

WinAmRateHi == Scale \div 10

\* the operands on which the boundary arithmetic fits the fixed point
InWindowAm(fs, x, t, r, b, v) ==
    /\ ~DLt(fs, ToDec(WinAmPriceLo)) /\ ~DLt(ToDec(WinAmPriceHi), fs)
    /\ ~DLt(x, ToDec(WinAmPriceLo)) /\ ~DLt(ToDec(WinAmPriceHi), x)
    /\ t >= WinAmTLo /\ t <= WinAmTHi
    /\ v >= WinAmVLo
    /\ r >= 0 /\ r <= WinAmRateHi
    /\ Abs(b) <= WinAmRateHi

American(val, work) == [kind |-> "tuple", val |-> val, work |-> work]

\* the computed value without the European floor
Unfloored(value, e, work) ==
    American(<< value, e[2], e[3], e[4], e[5], e[6] >>, work)

\* the European floor: value = max(value, e_value), with the Greeks of _gbs
Floored(value, e, work) ==
    American(<< Max(value, e[1]), e[2], e[3], e[4], e[5], e[6] >>, work)

\* sqrt(5) in milli
Sqrt5 == 2236

\* the 2002 continuation value on milli operands
Value2002(fs, x, t1, t2, r, b, v, beta, i1, i2) ==
    LET alpha1 == Mul(i1 - x, Pow(i1, -beta))
        alpha2 == Mul(i2 - x, Pow(i2, -beta))
    IN  Mul(alpha2, Pow(fs, beta))
          - Mul(alpha2, Call("_phi", << fs, t1, beta, i2, i2, r, b, v >>))
          + Call("_phi", << fs, t1, Scale, i2, i2, r, b, v >>)
          - Call("_phi", << fs, t1, Scale, i1, i2, r, b, v >>)
          - Mul(x, Call("_phi", << fs, t1, 0, i2, i2, r, b, v >>))
          + Mul(x, Call("_phi", << fs, t1, 0, i1, i2, r, b, v >>))
          + Mul(alpha1, Call("_phi", << fs, t1, beta, i1, i2, r, b, v >>))
          - Mul(alpha1, Call("_psi", << fs, t2, beta, i1, i2, i1, t1, r, b, v >>))
          + Call("_psi", << fs, t2, Scale, i1, i2, i1, t1, r, b, v >>)
          - Call("_psi", << fs, t2, Scale, x, i2, i1, t1, r, b, v >>)
          - Mul(x, Call("_psi", << fs, t2, 0, i1, i2, i1, t1, r, b, v >>))
          + Mul(x, Call("_psi", << fs, t2, 0, x, i2, i1, t1, r, b, v >>))

\* _bjerksund_stensland_2002 past the b >= r test, on milli operands, with
\* e the tuple of _gbs
Boundary2002(fs, x, t, r, b, v, e) ==
    LET v2 == Mul(v, v)
        t1 == Mul(Mul(Scale \div 2, Sqrt5 - Scale), t)
        t2 == t
        beta_inside == Abs(Mul(Div(b, v2) - Scale \div 2, Div(b, v2) - Scale \div 2)
                             + Div(2 * r, v2))
        beta == (Scale \div 2 - Div(b, v2)) + Sqrt(beta_inside)
        b_infinity == Mul(Div(beta, beta - Scale), x)
        b_zero == Max(x, Mul(Div(r, r - b), x))
        den == Mul(b_infinity - b_zero, b_zero)
        h1 == Mul(-(Mul(b, t1) + Mul(2 * v, Sqrt(t1))), Div(Mul(x, x), den))
        h2 == Mul(-(Mul(b, t2) + Mul(2 * v, Sqrt(t2))), Div(Mul(x, x), den))
        i1 == b_zero + Mul(b_infinity - b_zero, Scale - Exp(h1))
        i2 == b_zero + Mul(b_infinity - b_zero, Scale - Exp(h2))
    IN  IF beta = Scale \/ r = b \/ den = 0
        THEN Raised("ZeroDivisionError", "boundary", << >>)
        ELSE IF (i1 = 0 \/ i2 = 0) /\ beta > 0
        THEN Raised("ZeroDivisionError", "alpha", << >>)
        ELSE IF fs >= i2
        THEN Floored(fs - x, e, << "gbs", "boundary", "exercise" >>)
        ELSE IF i1 < 0
        THEN Raised("ValueError", "phi", << >>)
        ELSE Floored(Value2002(fs, x, t1, t2, r, b, v, beta, i1, i2), e,
                     << "gbs", "boundary", "phi", "psi" >>)

\* the 2002 pricer delegating only when b > r
_bjerksund_stensland_2002_strict(fs, x, t, r, b, v) ==
    LET my_output == Call("_gbs", << "c", fs, x, t, r, b, v >>)
    IN  IF my_output.kind # "tuple" THEN my_output
        ELSE IF b > r THEN American(my_output.val, << "gbs" >>)
        ELSE IF ~InWindowAm(fs, x, t, r, b, v)
        THEN American(Wide, << "gbs", "boundary" >>)
        ELSE Boundary2002(ToFix(fs), ToFix(x), t, r, b, v, my_output.val)

\* _bjerksund_stensland_2002
_bjerksund_stensland_2002(fs, x, t, r, b, v) ==
    LET my_output == Call("_gbs", << "c", fs, x, t, r, b, v >>)
    IN  IF my_output.kind # "tuple" THEN my_output
        ELSE IF b >= r THEN American(my_output.val, << "gbs" >>)
        ELSE IF ~InWindowAm(fs, x, t, r, b, v)
        THEN American(Wide, << "gbs", "boundary" >>)
        ELSE Boundary2002(ToFix(fs), ToFix(x), t, r, b, v, my_output.val)

\* the 1993 continuation value on milli operands
Value1993(fs, x, t, r, b, v, beta, i) ==
    LET alpha == Mul(i - x, Pow(i, -beta))
    IN  Mul(alpha, Pow(fs, beta))
          - Mul(alpha, Call("_phi", << fs, t, beta, i, i, r, b, v >>))
          + Call("_phi", << fs, t, Scale, i, i, r, b, v >>)
          - Call("_phi", << fs, t, Scale, x, i, r, b, v >>)
          - Mul(x, Call("_phi", << fs, t, 0, i, i, r, b, v >>))
          + Mul(x, Call("_phi", << fs, t, 0, x, i, r, b, v >>))

\* _bjerksund_stensland_1993 past the b >= r test, on milli operands
Boundary1993(fs, x, t, r, b, v, e) ==
    LET v2 == Mul(v, v)
        sqrt_t == Sqrt(t)
        inside == Mul(Div(b, v2) - Scale \div 2, Div(b, v2) - Scale \div 2)
                    + Div(2 * r, v2)
        beta == (Scale \div 2 - Div(b, v2)) + Sqrt(inside)
        b_infinity == Mul(Div(beta, beta - Scale), x)
        b_zero == Max(x, Mul(Div(r, r - b), x))
        h1 == Mul(-(Mul(b, t) + Mul(2 * v, sqrt_t)), Div(b_zero, b_infinity - b_zero))
        i == b_zero + Mul(b_infinity - b_zero, Scale - Exp(h1))
    IN  IF inside < 0
        THEN Raised("ValueError", "beta", << >>)
        ELSE IF beta = Scale \/ r = b \/ b_infinity = b_zero
        THEN Raised("ZeroDivisionError", "boundary", << >>)
        ELSE IF i = 0 /\ beta > 0
        THEN Raised("ZeroDivisionError", "alpha", << >>)
        ELSE IF fs >= i
        THEN Floored(fs - x, e, << "gbs", "boundary", "exercise" >>)
        ELSE Floored(Value1993(fs, x, t, r, b, v, beta, i), e,
                     << "gbs", "boundary", "phi" >>)

\* _bjerksund_stensland_1993
_bjerksund_stensland_1993(fs, x, t, r, b, v) ==
    LET my_output == Call("_gbs", << "c", fs, x, t, r, b, v >>)
    IN  IF my_output.kind # "tuple" THEN my_output
        ELSE IF b >= r THEN American(my_output.val, << "gbs" >>)
        ELSE IF ~InWindowAm(fs, x, t, r, b, v)
        THEN American(Wide, << "gbs", "boundary" >>)
        ELSE Boundary1993(ToFix(fs), ToFix(x), t, r, b, v, my_output.val)

\* the American pricer with a put exchanging fs and x only
_american_option_swapped(option_type, fs, x, t, r, b, v) ==
    LET chk == _gbs_test_inputs(option_type, fs, x, t, r, b, v)
    IN  IF chk.kind # "ok" THEN chk
        ELSE IF option_type = "c"
        THEN Call("_bjerksund_stensland_2002", << fs, x, t, r, b, v >>)
        ELSE Call("_bjerksund_stensland_2002", << x, fs, t, r, b, v >>)

\* _american_option: validation, then the call pricer (for a put, on the
\* transformed operands)
_american_option(option_type, fs, x, t, r, b, v) ==
    LET chk == _gbs_test_inputs(option_type, fs, x, t, r, b, v)
    IN  IF chk.kind # "ok" THEN chk
        ELSE IF option_type = "c"
        THEN Call("_bjerksund_stensland_2002", << fs, x, t, r, b, v >>)
        ELSE Call("_bjerksund_stensland_2002", << x, fs, t, r - b, -b, v >>)

(***************************************************************************)
(* Implied volatility: the seed approximation.                             *)
(***************************************************************************)
Float(val) == [kind |-> "float", val |-> val]

\* a float the fixed point cannot hold
WideFloat == [kind |-> "wide"]

IsWide(val) == Len(val) = 1

\* the operands on which the seed arithmetic fits the fixed point
ApproxWindow(fs, x, t, r, b, cp) ==
    /\ ~DLt(fs, ToDec(WinPriceLo)) /\ ~DLt(ToDec(WinPriceHi), fs)
    /\ ~DLt(x, ToDec(WinPriceLo)) /\ ~DLt(ToDec(WinPriceHi), x)
    /\ t > 0 /\ t <= WinTHi
    /\ Abs(r) <= 2 * Scale /\ Abs(b) <= 2 * Scale
    /\ cp >= 0 /\ cp <= WinPriceHi

\* the arithmetic of _approx_implied_vol on milli operands
ApproxValue(option_type, fs, x, t, r, b, cp) ==
    LET ebrt == Exp(Mul(b - r, t))
        ert == Exp(Mul(-r, t))
        a == Div(2507, Mul(fs, ebrt) + Mul(x, ert))
        payoff == IF option_type = "c"
                  THEN Mul(fs, ebrt) - Mul(x, ert)
                  ELSE Mul(x, ert) - Mul(fs, ebrt)
        b2 == cp - RDiv(payoff, 2)
        c == Div(Mul(payoff, payoff), 3142)
    IN  Div(Mul(a, b2 + Sqrt(Mul(b2, b2) + c)), Sqrt(t))

\* _approx_implied_vol: no validation but the option type; with positive
\* prices the only failing operation is the division by math.sqrt(t)
_approx_implied_vol(option_type, fs, x, t, r, b, cp) ==
    IF _test_option_type(option_type).kind # "ok"
    THEN _test_option_type(option_type)
    ELSE IF t < 0 /\ DLt(Dec(0, 0), fs) /\ DLt(Dec(0, 0), x)
    THEN Raised("ValueError", "t", << >>)
    ELSE IF t = 0 /\ DLt(Dec(0, 0), fs) /\ DLt(Dec(0, 0), x)
    THEN Raised("ZeroDivisionError", "t", << >>)
    ELSE IF ~ApproxWindow(fs, x, t, r, b, cp)
    THEN WideFloat
    ELSE Float(ApproxValue(option_type, ToFix(fs), ToFix(x), t, r, b, cp))

(***************************************************************************)
(* The public interface for valuation.                                     *)
(***************************************************************************)
\* black_scholes
black_scholes(option_type, fs, x, t, r, v) ==
    Call("_gbs", << option_type, fs, x, t, r, r, v >>)

\* merton
merton(option_type, fs, x, t, r, q, v) ==
    Call("_gbs", << option_type, fs, x, t, r, r - q, v >>)

\* black_76
black_76(option_type, fs, x, t, r, v) ==
    Call("_gbs", << option_type, fs, x, t, r, 0, v >>)

\* garman_kohlhagen with the carry taken as rf - r
garman_kohlhagen_reversed(option_type, fs, x, t, r, rf, v) ==
    Call("_gbs", << option_type, fs, x, t, r, rf - r, v >>)

\* garman_kohlhagen
garman_kohlhagen(option_type, fs, x, t, r, rf, v) ==
    Call("_gbs", << option_type, fs, x, t, r, r - rf, v >>)

WinAsianVLo == Scale

\* the operands on which the averaging arithmetic fits the fixed point
AsianWindow(t, t_a, v) ==
    /\ Abs(v) >= WinAsianVLo /\ Abs(v) <= 2 * Scale
    /\ t <= WinTHi /\ t - t_a >= WinAmTLo

\* the m of asian_76 on milli operands
AsianM(t, t_a, v) ==
    Div(2 * Exp(Mul(Mul(v, v), t))
          - Mul(2 * Exp(Mul(Mul(v, v), t_a)), Scale + Mul(Mul(v, v), t - t_a)),
        Mul(Mul(Mul(v, v), Mul(v, v)), Mul(t - t_a, t - t_a)))

\* asian_76 adjusting the volatility also when t_a = t
asian_76_without_shortcut(option_type, fs, x, t, t_a, r, v) ==
    IF t_a < MIN_TA \/ t_a > t
    THEN Raised("GBS_InputError", "t_a", << t_a, MIN_TA >>)
    ELSE IF v = 0
    THEN Raised("ZeroDivisionError", "m", << >>)
    ELSE IF t_a = t
    THEN Raised("ZeroDivisionError", "m", << >>)
    ELSE IF ~AsianWindow(t, t_a, v)
    THEN Unmodelled
    ELSE IF AsianM(t, t_a, v) <= 0 \/ Ln(AsianM(t, t_a, v)) < 0
    THEN Unmodelled
    ELSE Call("_gbs", << option_type, fs, x, t, r, 0, Sqrt(Div(Ln(AsianM(t, t_a, v)), t)) >>)

\* asian_76 with the averaging time checked against the open interval
asian_76_open(option_type, fs, x, t, t_a, r, v) ==
    IF t_a <= MIN_TA \/ t_a >= t
    THEN Raised("GBS_InputError", "t_a", << t_a, MIN_TA >>)
    ELSE IF v = 0
    THEN Raised("ZeroDivisionError", "m", << >>)
    ELSE IF ~AsianWindow(t, t_a, v)
    THEN Unmodelled
    ELSE IF AsianM(t, t_a, v) <= 0 \/ Ln(AsianM(t, t_a, v)) < 0
    THEN Unmodelled
    ELSE Call("_gbs", << option_type, fs, x, t, r, 0, Sqrt(Div(Ln(AsianM(t, t_a, v)), t)) >>)

\* asian_76: the averaging-time check, the volatility adjustment, then _gbs
asian_76(option_type, fs, x, t, t_a, r, v) ==
    IF t_a < MIN_TA \/ t_a > t
    THEN Raised("GBS_InputError", "t_a", << t_a, MIN_TA >>)
    ELSE IF t_a = t
    THEN Call("_gbs", << option_type, fs, x, t, r, 0, v >>)
    ELSE IF v = 0
    THEN Raised("ZeroDivisionError", "m", << >>)
    ELSE IF ~AsianWindow(t, t_a, v)
    THEN Unmodelled
    ELSE IF AsianM(t, t_a, v) <= 0 \/ Ln(AsianM(t, t_a, v)) < 0
    THEN Unmodelled
    ELSE Call("_gbs", << option_type, fs, x, t, r, 0, Sqrt(Div(Ln(AsianM(t, t_a, v)), t)) >>)

\* the operands on which the spread arithmetic fits the fixed point
KirkWindow(f1, f2, x, v1, v2, corr) ==
    /\ ~DLt(f1, ToDec(-WinPriceHi)) /\ ~DLt(ToDec(WinPriceHi), f1)
    /\ ~DLt(f2, ToDec(-WinPriceHi)) /\ ~DLt(ToDec(WinPriceHi), f2)
    /\ ~DLt(x, ToDec(-WinPriceHi)) /\ ~DLt(ToDec(WinPriceHi), x)
    /\ Abs(v1) <= 2 * Scale /\ Abs(v2) <= 2 * Scale /\ Abs(corr) <= 2 * Scale

\* the combined volatility of kirks_76 under the square root, on milli operands
KirkVar(f1, f2, x, v1, v2, corr) ==
    LET f_temp == Div(f2, f2 + x)
    IN  Mul(v1, v1) + Mul(Mul(v2, f_temp), Mul(v2, f_temp))
          - Mul(Mul(Mul(2 * corr, v1), v2), f_temp)

\* the rescaled value of kirks_76 with the Greeks of my_values
KirkTupleWithGreeks(my_values, scale) ==
    IF my_values.kind # "tuple" THEN my_values
    ELSE IF IsWide(my_values.val) THEN Returned(Wide)
    ELSE Returned(<< Mul(my_values.val[1], scale), my_values.val[2],
                     my_values.val[3], my_values.val[4], my_values.val[5],
                     my_values.val[6] >>)

\* the rescaled result of kirks_76: my_values[0] * (f2 + x), 0, 0, 0, 0, 0
KirkTuple(my_values, scale) ==
    IF my_values.kind # "tuple" THEN my_values
    ELSE IF IsWide(my_values.val) THEN Returned(Wide)
    ELSE Returned(<< Mul(my_values.val[1], scale), 0, 0, 0, 0, 0 >>)

\* kirks_76: the synthetic operands are computed first, then _gbs validates them
kirks_76(option_type, f1, f2, x, t, r, v1, v2, corr) ==
    IF ~KirkWindow(f1, f2, x, v1, v2, corr)
    THEN Unmodelled
    ELSE IF ToFix(f2) + ToFix(x) = 0
    THEN Raised("ZeroDivisionError", "fs", << >>)
    ELSE IF KirkVar(ToFix(f1), ToFix(f2), ToFix(x), v1, v2, corr) < 0
    THEN Raised("ValueError", "v", << >>)
    ELSE KirkTuple(Call("_gbs", << option_type,
                        ToDec(Div(ToFix(f1), ToFix(f2) + ToFix(x))),
                        Dec(1, 0), t, r, 0,
                        Sqrt(KirkVar(ToFix(f1), ToFix(f2), ToFix(x), v1, v2, corr)) >>),
                   ToFix(f2) + ToFix(x))

\* american
american(option_type, fs, x, t, r, q, v) ==
    Call("_american_option", << option_type, fs, x, t, r, r - q, v >>)

\* american_76
american_76(option_type, fs, x, t, r, v) ==
    Call("_american_option", << option_type, fs, x, t, r, 0, v >>)

\* the call f(a), by the name of f
Call(f, a) ==
    CASE f = "math.exp" -> math_exp(a[1])
      [] f = "math.log" -> math_log(a[1])
      [] f = "math.sqrt" -> math_sqrt(a[1])
      [] f = "norm.cdf" -> norm_cdf(a[1])
      [] f = "norm.pdf" -> norm_pdf(a[1])
      [] f = "**" -> math_pow(a[1], a[2])
      [] f = "math.asin" -> math_asin(a[1])
      [] f = "_cbnd" -> _cbnd(a[1], a[2], a[3])
      [] f = "_phi" -> _phi(a[1], a[2], a[3], a[4], a[5], a[6], a[7], a[8])
      [] f = "_psi" -> _psi(a[1], a[2], a[3], a[4], a[5], a[6], a[7], a[8], a[9], a[10])
      [] f = "_gbs" -> _gbs(a[1], a[2], a[3], a[4], a[5], a[6], a[7])
      [] f = "_bjerksund_stensland_2002" ->
            _bjerksund_stensland_2002(a[1], a[2], a[3], a[4], a[5], a[6])
      [] f = "_bjerksund_stensland_1993" ->
            _bjerksund_stensland_1993(a[1], a[2], a[3], a[4], a[5], a[6])
      [] f = "_american_option" ->
            _american_option(a[1], a[2], a[3], a[4], a[5], a[6], a[7])
      [] f = "_approx_implied_vol" ->
            _approx_implied_vol(a[1], a[2], a[3], a[4], a[5], a[6], a[7])
      [] f = "black_scholes" -> black_scholes(a[1], a[2], a[3], a[4], a[5], a[6])
      [] f = "merton" -> merton(a[1], a[2], a[3], a[4], a[5], a[6], a[7])
      [] f = "black_76" -> black_76(a[1], a[2], a[3], a[4], a[5], a[6])
      [] f = "garman_kohlhagen" ->
            garman_kohlhagen(a[1], a[2], a[3], a[4], a[5], a[6], a[7])
      [] f = "asian_76" -> asian_76(a[1], a[2], a[3], a[4], a[5], a[6], a[7])
      [] f = "kirks_76" ->
            kirks_76(a[1], a[2], a[3], a[4], a[5], a[6], a[7], a[8], a[9])
      [] f = "american" -> american(a[1], a[2], a[3], a[4], a[5], a[6], a[7])
      [] f = "american_76" -> american_76(a[1], a[2], a[3], a[4], a[5], a[6])

\* the positional arguments of fn from the keyword arguments a
Positional(fn, a) ==
    CASE fn \in { "_gbs", "_american_option" } ->
            << a.option_type, a.fs, a.x, a.t, a.r, a.b, a.v >>
      [] fn \in { "_bjerksund_stensland_2002", "_bjerksund_stensland_1993" } ->
            << a.fs, a.x, a.t, a.r, a.b, a.v >>
      [] fn \in { "black_scholes", "black_76", "american_76" } ->
            << a.option_type, a.fs, a.x, a.t, a.r, a.v >>
      [] fn \in { "merton", "american" } ->
            << a.option_type, a.fs, a.x, a.t, a.r, a.q, a.v >>
      [] fn = "garman_kohlhagen" ->
            << a.option_type, a.fs, a.x, a.t, a.r, a.rf, a.v >>
      [] fn = "asian_76" -> << a.option_type, a.fs, a.x, a.t, a.t_a, a.r, a.v >>
      [] fn = "kirks_76" ->
            << a.option_type, a.f1, a.f2, a.x, a.t, a.r, a.v1, a.v2, a.corr >>

\* the entry points that return a 6-tuple, by name
Valuation(fn, a) == Call(fn, Positional(fn, a))

(***************************************************************************)
(* Implied volatility: the two searches, one loop iteration per step.      *)
(* precision is given in micro (the default .00001 is 10); a residual is   *)
(* in milli.                                                               *)
(***************************************************************************)
DefaultPrecision == 10

DefaultMaxSteps == 100

\* a residual d compared with a precision p
ResidualBelow(d, p) == d * Scale < p

ResidualAbove(d, p) == d * Scale > p

\* val_fn(option_type, fs, x, t, r, b, v): val_fn is _gbs or _american_option
ValFn(val_fn, option_type, fs, x, t, r, b, v) ==
    Call(val_fn, << option_type, fs, x, t, r, b, v >>)

\* val_fn on the arguments a of a search, at volatility v
Eval(a, v) == ValFn(a.val_fn, a.option_type, a.fs, a.x, a.t, a.r, a.b, v)

\* the arguments of a search
SolverArgs(val_fn, option_type, fs, x, t, r, b, cp, precision, max_steps) ==
    [val_fn |-> val_fn, option_type |-> option_type, fs |-> fs, x |-> x, t |-> t,
     r |-> r, b |-> b, cp |-> cp, precision |-> precision, max_steps |-> max_steps]

NoLocals == [at |-> "none"]

\* with a seed the fixed point cannot hold, the call ends at the first
\* evaluation if val_fn rejects the inputs (both val_fn validate with
\* _gbs_test_inputs); positive prices leave the seed finite
AfterWideSeed(a) ==
    LET chk == _gbs_test_inputs(a.option_type, a.fs, a.x, a.t, a.r, a.b, MIN_V)
    IN  IF chk.kind # "ok" /\ DLt(Dec(0, 0), a.fs) /\ DLt(Dec(0, 0), a.x) /\ a.t > 0
        THEN chk
        ELSE Unmodelled

VARIABLES
    pc,     \* "idle", "newton", "bisect" (at the head of the loop) or "done"
    call,   \* the entry point called, and its arguments
    out,    \* the outcome of the call
    sa,     \* the arguments of the search that is running
    nw,     \* the locals of _newton_implied_vol
    bs,     \* the locals of _bisection_implied_vol
    evals,  \* the evaluations of val_fn since the call began
    hist,   \* the invocations of _bisection_implied_vol: their arguments
    peer    \* the call of a second caller, while the first one runs

vars == << pc, call, out, sa, nw, bs, evals, hist, peer >>

Init ==
    /\ pc = "idle"
    /\ call = [fn |-> "none"]
    /\ out = NoOutcome
    /\ sa = NoLocals
    /\ nw = NoLocals
    /\ bs = NoLocals
    /\ evals = 0
    /\ hist = << >>
    /\ peer = [pc |-> "idle", call |-> [fn |-> "none"], out |-> NoOutcome,
               sa |-> NoLocals, nw |-> NoLocals, bs |-> NoLocals,
               evals |-> 0, hist |-> << >>]

\* the call ends with outcome o
Finish(o) == pc' = "done" /\ out' = o

(***************************************************************************)
(* _bisection_implied_vol                                                  *)
(***************************************************************************)
\* the bracket around the seed v_mid: v_low, v_high, v_mid
Bracket(v_mid) ==
    IF v_mid <= MIN_V \/ v_mid >= MAX_V
    THEN << MIN_V, MAX_V, RDiv(MIN_V + MAX_V, 2) >>
    ELSE << Max(MIN_V, Mul(v_mid, Scale \div 2)),
            Min(MAX_V, Mul(v_mid, 3 * (Scale \div 2))),
            v_mid >>

\* the return or the raise after the loop, the raise reporting v_low
BisectEndReportingLowEnd(a, b) ==
    IF ResidualBelow(Abs(a.cp - b.cp_mid), a.precision)
    THEN Float(b.v_mid)
    ELSE Raised("GBS_CalculationError", "_bisection_implied_vol",
                << b.v_low, b.diff, a.precision >>)

\* the return or the raise after the loop
BisectEnd(a, b) ==
    IF ResidualBelow(Abs(a.cp - b.cp_mid), a.precision)
    THEN Float(b.v_mid)
    ELSE Raised("GBS_CalculationError", "_bisection_implied_vol",
                << b.v_mid, b.diff, a.precision >>)

\* what val_fn gave in place of a price fitting the fixed point
NoPrice(p) == IF p.kind # "tuple" THEN p ELSE Unmodelled

HasPrice(p) == p.kind = "tuple" /\ ~IsWide(p.val)

\* the search with arguments a up to the head of its loop, from the seed, the
\* bracket br around it and mid, the first evaluation
BisectBegin(a, seed, br, mid) ==
    /\ hist' = Append(hist, a)
    /\ sa' = a
    /\ IF seed.kind \notin { "float", "wide" }
       THEN Finish(seed) /\ UNCHANGED evals /\ bs' = NoLocals
       ELSE IF seed.kind = "wide"
       THEN Finish(AfterWideSeed(a)) /\ evals' = evals + 1 /\ bs' = NoLocals
       ELSE IF ~HasPrice(mid)
       THEN Finish(NoPrice(mid)) /\ evals' = evals + 1 /\ bs' = NoLocals
       ELSE /\ pc' = "bisect"
            /\ out' = NoOutcome
            /\ evals' = evals + 1
            /\ bs' = [at |-> "loop", v_low |-> br[1], v_high |-> br[2],
                      v_mid |-> br[3], cp_mid |-> mid.val[1],
                      current_step |-> 0, diff |-> Abs(a.cp - mid.val[1])]

BisectSeeded(a, seed) ==
    BisectBegin(a, seed, Bracket(seed.val), Eval(a, Bracket(seed.val)[3]))

\* _bisection_implied_vol up to the head of its loop
_bisection_implied_vol(val_fn, option_type, fs, x, t, r, b, cp, precision, max_steps) ==
    BisectSeeded(SolverArgs(val_fn, option_type, fs, x, t, r, b, cp, precision, max_steps),
                 Call("_approx_implied_vol", << option_type, fs, x, t, r, b, cp >>))

\* the end of an iteration: the price mid at the interpolated v_mid
BisectMid(cut, v_mid, mid) ==
    /\ evals' = evals + 3
    /\ IF ~HasPrice(mid)
       THEN Finish(NoPrice(mid)) /\ bs' = cut
       ELSE /\ UNCHANGED << pc, out >>
            /\ bs' = [cut EXCEPT !.v_mid = v_mid, !.cp_mid = mid.val[1],
                                 !.diff = Abs(sa.cp - mid.val[1])]

\* the secant through the bracket prices, wherever it falls
SecantUnclamped(lo, hi, cp_low, cp_high) ==
    lo + MulDiv(sa.cp - cp_low, hi - lo, cp_high - cp_low)

\* the secant through the bracket prices, within [MIN_V, MAX_V]
Secant(lo, hi, cp_low, cp_high) ==
    Min(MAX_V, Max(MIN_V, lo + MulDiv(sa.cp - cp_low, hi - lo, cp_high - cp_low)))

\* an iteration past the cut of the bracket to lo, hi, with their prices low
\* and high.  Equal prices at one volatility are equal in floats; at two
\* volatilities the fixed point cannot tell
BisectBody(cut, lo, hi, low, high) ==
    IF ~HasPrice(low)
    THEN Finish(NoPrice(low)) /\ evals' = evals + 1 /\ bs' = cut
    ELSE IF ~HasPrice(high)
    THEN Finish(NoPrice(high)) /\ evals' = evals + 2 /\ bs' = cut
    ELSE IF high.val[1] = low.val[1]
    THEN /\ Finish(IF lo = hi
                   THEN Raised("ZeroDivisionError", "v_mid", << >>)
                   ELSE Unmodelled)
         /\ evals' = evals + 2
         /\ bs' = cut
    ELSE BisectMid(cut, Secant(lo, hi, low.val[1], high.val[1]),
                   Eval(sa, Secant(lo, hi, low.val[1], high.val[1])))

\* the cut of the bracket without the count of the step
BisectCutUncounted(lo, hi) ==
    BisectBody([bs EXCEPT !.v_low = lo, !.v_high = hi],
               lo, hi, Eval(sa, lo), Eval(sa, hi))

\* the cut of a bracket that all running searches share
BisectCutOfSharedBracket(lo, hi) ==
    BisectBody([bs EXCEPT !.current_step = @ + 1,
                          !.v_low = IF peer.bs.at = "loop" THEN peer.bs.v_low ELSE lo,
                          !.v_high = IF peer.bs.at = "loop" THEN peer.bs.v_high ELSE hi],
               IF peer.bs.at = "loop" THEN peer.bs.v_low ELSE lo,
               IF peer.bs.at = "loop" THEN peer.bs.v_high ELSE hi,
               Eval(sa, IF peer.bs.at = "loop" THEN peer.bs.v_low ELSE lo),
               Eval(sa, IF peer.bs.at = "loop" THEN peer.bs.v_high ELSE hi))

\* the count of the step without the cut of the bracket
BisectCountWithoutCut(lo, hi) ==
    BisectBody([bs EXCEPT !.current_step = @ + 1],
               bs.v_low, bs.v_high, Eval(sa, bs.v_low), Eval(sa, bs.v_high))

\* the cut of the bracket at v_mid
BisectCut(lo, hi) ==
    BisectBody([bs EXCEPT !.current_step = @ + 1, !.v_low = lo, !.v_high = hi],
               lo, hi, Eval(sa, lo), Eval(sa, hi))

\* one test of the loop condition and, if it holds, one iteration; if not,
\* the return or the raise
BisectStep ==
    /\ pc = "bisect"
    /\ UNCHANGED << call, sa, nw, hist, peer >>
    /\ IF ResidualAbove(bs.diff, sa.precision) /\ bs.current_step < sa.max_steps
       THEN IF bs.cp_mid < sa.cp
            THEN BisectCut(bs.v_mid, bs.v_high)
            ELSE BisectCut(bs.v_low, bs.v_mid)
       ELSE Finish(BisectEnd(sa, bs)) /\ UNCHANGED << evals, bs >>

(***************************************************************************)
(* _newton_implied_vol                                                     *)
(***************************************************************************)
\* the search with arguments a up to the head of its loop, from the seed, the
\* clamped v and first, the evaluation at v
NewtonBegin(a, seed, v, first) ==
    /\ sa' = a
    /\ UNCHANGED << bs, hist >>
    /\ IF _test_option_type(a.option_type).kind # "ok"
       THEN Finish(_test_option_type(a.option_type)) /\ UNCHANGED evals /\ nw' = NoLocals
       ELSE IF seed.kind \notin { "float", "wide" }
       THEN Finish(seed) /\ UNCHANGED evals /\ nw' = NoLocals
       ELSE IF seed.kind = "wide"
       THEN Finish(AfterWideSeed(a)) /\ evals' = evals + 1 /\ nw' = NoLocals
       ELSE IF ~HasPrice(first)
       THEN Finish(NoPrice(first)) /\ evals' = evals + 1 /\ nw' = NoLocals
       ELSE /\ pc' = "newton"
            /\ out' = NoOutcome
            /\ evals' = evals + 1
            /\ nw' = [at |-> "loop", v |-> v, value |-> first.val[1],
                      vega |-> first.val[5], countr |-> 0,
                      min_diff |-> Abs(a.cp - first.val[1])]

NewtonSeeded(a, seed) ==
    NewtonBegin(a, seed, Min(MAX_V, Max(MIN_V, seed.val)),
                Eval(a, Min(MAX_V, Max(MIN_V, seed.val))))

\* _newton_implied_vol up to the head of its loop
_newton_implied_vol(val_fn, option_type, x, fs, t, b, r, cp, precision, max_steps) ==
    NewtonSeeded(SolverArgs(val_fn, option_type, fs, x, t, r, b, cp, precision, max_steps),
                 Call("_approx_implied_vol", << option_type, fs, x, t, r, b, cp >>))

\* the loop condition without the comparison with min_diff
NewtonLoopsWhateverTheBest ==
    /\ sa.precision <= Abs(sa.cp - nw.value) * Scale
    /\ nw.countr < sa.max_steps

\* the loop condition of _newton_implied_vol
NewtonLoops ==
    /\ sa.precision <= Abs(sa.cp - nw.value) * Scale
    /\ Abs(sa.cp - nw.value) <= nw.min_diff
    /\ nw.countr < sa.max_steps

\* the updated guess v - (value - cp) / vega
NewtonGuess == nw.v - Div(nw.value - sa.cp, nw.vega)

\* past the loop, returning the v that left [MIN_V, MAX_V]
NewtonEndOnBreak(n) ==
    /\ nw' = n
    /\ IF ResidualBelow(Abs(sa.cp - n.value), sa.precision) \/ n.at = "break"
       THEN Finish(Float(n.v)) /\ UNCHANGED << sa, bs, evals, hist >>
       ELSE _bisection_implied_vol(sa.val_fn, sa.option_type, sa.fs, sa.x, sa.t,
                                   sa.r, sa.b, sa.cp, sa.precision, sa.max_steps)

\* past the loop, returning v whatever its price
NewtonEndWithoutFallback(n) ==
    /\ nw' = n
    /\ Finish(Float(n.v)) /\ UNCHANGED << sa, bs, evals, hist >>

\* past the loop with locals n: return v, or fall back to the bisection search
NewtonEnd(n) ==
    /\ nw' = n
    /\ IF ResidualBelow(Abs(sa.cp - n.value), sa.precision)
       THEN Finish(Float(n.v)) /\ UNCHANGED << sa, bs, evals, hist >>
       ELSE _bisection_implied_vol(sa.val_fn, sa.option_type, sa.fs, sa.x, sa.t,
                                   sa.r, sa.b, sa.cp, sa.precision, sa.max_steps)

\* the end of an iteration: next, the evaluation at the updated guess v
NewtonBody(v, next) ==
    /\ UNCHANGED << sa, bs, hist >>
    /\ evals' = evals + 1
    /\ IF ~HasPrice(next)
       THEN Finish(NoPrice(next)) /\ nw' = [nw EXCEPT !.v = v]
       ELSE /\ UNCHANGED << pc, out >>
            /\ nw' = [nw EXCEPT !.v = v, !.value = next.val[1], !.vega = next.val[5],
                                !.min_diff = Min(Abs(sa.cp - next.val[1]), @),
                                !.countr = @ + 1]

\* one test of the loop condition and, if it holds, one iteration; if not, or
\* on the break, the code past the loop.  A vega of 0 in fixed point is a small
\* float, whose quotient the fixed point cannot hold
NewtonStep ==
    /\ pc = "newton"
    /\ UNCHANGED << call, peer >>
    /\ IF NewtonLoops /\ nw.vega = 0
       THEN /\ Finish(Unmodelled)
            /\ UNCHANGED << sa, nw, bs, evals, hist >>
       ELSE IF NewtonLoops /\ NewtonGuess <= MAX_V /\ NewtonGuess >= MIN_V
       THEN NewtonBody(NewtonGuess, Eval(sa, NewtonGuess))
       ELSE NewtonEnd(IF NewtonLoops
                      THEN [nw EXCEPT !.v = NewtonGuess, !.at = "break"]
                      ELSE [nw EXCEPT !.at = "end"])

\* _gbs_implied_vol handing fs, x, r, b on in its own order
_gbs_implied_vol_in_own_order(option_type, fs, x, t, r, b, cp, precision, max_steps) ==
    _newton_implied_vol("_gbs", option_type, fs, x, t, r, b, cp, precision, max_steps)

\* _gbs_implied_vol
_gbs_implied_vol(option_type, fs, x, t, r, b, cp, precision, max_steps) ==
    _newton_implied_vol("_gbs", option_type, x, fs, t, b, r, cp, precision, max_steps)

\* _american_implied_vol
_american_implied_vol(option_type, fs, x, t, r, b, cp, precision, max_steps) ==
    _bisection_implied_vol("_american_option", option_type, fs, x, t, r, b, cp,
                           precision, max_steps)

\* euro_implied_vol
euro_implied_vol(option_type, fs, x, t, r, q, cp) ==
    _gbs_implied_vol(option_type, fs, x, t, r, r - q, cp,
                     DefaultPrecision, DefaultMaxSteps)

\* euro_implied_vol_76
euro_implied_vol_76(option_type, fs, x, t, r, cp) ==
    _gbs_implied_vol(option_type, fs, x, t, r, 0, cp, DefaultPrecision, DefaultMaxSteps)

\* amer_implied_vol
amer_implied_vol(option_type, fs, x, t, r, q, cp) ==
    _american_implied_vol(option_type, fs, x, t, r, r - q, cp,
                          DefaultPrecision, DefaultMaxSteps)

\* amer_implied_vol_76
amer_implied_vol_76(option_type, fs, x, t, r, cp) ==
    _american_implied_vol(option_type, fs, x, t, r, 0, cp,
                          DefaultPrecision, DefaultMaxSteps)

(***************************************************************************)
(* The calls made on the library.                                          *)
(***************************************************************************)
\* the largest max_steps passed explicitly to a search
MaxSteps == 3

OptionTypes == { "c", "p", "C", "call" }

\* prices, times, rates and volatilities at and around the limits
PriceProbe == { Dec(0, 9), Dec(0, 10), Dec(1, 0), Dec(MAX32, 0), Dec(MAX32, 1) }

TProbe == { 0, MIN_T, Scale \div 2, MAX_T, MAX_T + 1 }

RateProbe == { MIN_r - 1, MIN_r, Scale \div 10, MAX_r, MAX_r + 1 }

CarryProbe == { MIN_b - 1, MIN_b, 0, MAX_b, MAX_b + 1 }

VolProbe == { MIN_V - 1, MIN_V, Scale \div 4, MAX_V, MAX_V + 1 }

\* an at-the-money call, half a year, r = 10%, b = 0, v = 25%
Base ==
    [option_type |-> "c", fs |-> Dec(1, 0), x |-> Dec(1, 0), t |-> Scale \div 2,
     r |-> Scale \div 10, b |-> 0, v |-> Scale \div 4]

\* the number of arguments in which a differs from Base
Moved(a) == Cardinality({ f \in DOMAIN Base : a[f] # Base[f] })

\* an argument and a value for it
Moves ==
    ({ "option_type" } \X OptionTypes) \cup ({ "fs", "x" } \X PriceProbe)
      \cup ({ "t" } \X TProbe) \cup ({ "r" } \X RateProbe)
      \cup ({ "b" } \X CarryProbe) \cup ({ "v" } \X VolProbe)

\* calls with at most two arguments away from Base
ProbeArgs ==
    { [[Base EXCEPT ![m[1]] = m[2]] EXCEPT ![n[1]] = n[2]] : m \in Moves, n \in Moves }

\* calls inside the domain, on which the valuations are computed, and a
\* call deep in the money at a low rate (fs = 1.25, x = 0.8, r = 1%, v = 40%)
GridArgs ==
    [option_type : { "c", "p" },
     fs : { Dec(0, 900), Dec(1, 0), Dec(1, 250) },
     x : { Dec(1, 0) },
     t : { Scale \div 2, Scale },
     r : { 0, Scale \div 20, Scale \div 10 },
     b : { -(Scale \div 10), 0, Scale \div 10 },
     v : { (3 * Scale) \div 20, (7 * Scale) \div 20, Scale }]
      \cup { [Base EXCEPT !.fs = Dec(1, 250), !.x = Dec(0, 800),
                          !.r = Scale \div 100, !.v = (2 * Scale) \div 5] }

\* puts at the corners of the limits of r and b
PutProbe ==
    { [Base EXCEPT !.option_type = "p", !.r = r, !.b = b] :
         r \in RateProbe, b \in CarryProbe }

GbsArgs == ProbeArgs \cup GridArgs \cup PutProbe

\* the same calls through an interface that takes a yield q (or rf) for b = r - q
WithYield(S, f) ==
    { [option_type |-> a.option_type, fs |-> a.fs, x |-> a.x, t |-> a.t,
       r |-> a.r, v |-> a.v] @@ (f :> a.r - a.b) : a \in S }

\* the same calls through an interface without b
WithoutCarry(S) ==
    { [option_type |-> a.option_type, fs |-> a.fs, x |-> a.x, t |-> a.t,
       r |-> a.r, v |-> a.v] : a \in S }

\* asian_76: averaging start times around [0, t], volatilities around 0
AsianArgs ==
    { [option_type |-> a.option_type, fs |-> a.fs, x |-> a.x, t |-> a.t,
       r |-> a.r, v |-> v, t_a |-> t_a] :
         a \in { g \in GbsArgs : g.b = 0 /\ g.option_type \in { "c", "C" }
                                  /\ Moved(g) <= 1 },
         t_a \in { -1, 0, Scale \div 4, Scale \div 2, Scale \div 2 + 1 },
         v \in { -Scale, 0, Scale \div 4, Scale \div 2, Scale, (3 * Scale) \div 2 } }

\* kirks_76: two futures, a strike that may cancel f2, two volatilities
KirkArgs ==
    [option_type : { "c", "p", "C" },
     f1 : { Dec(1, 0), Dec(1, 100) },
     f2 : { Dec(0, 50), Dec(0, 100), Dec(0, 500) },
     x : { Dec(-1, 900), Dec(-1, 950), Dec(0, 0), Dec(0, 900), Dec(0, 950) },
     t : { 0, Scale \div 2 },
     r : { Scale \div 10 },
     v1 : { Scale \div 5, Scale \div 2 },
     v2 : { Scale \div 5 },
     corr : { -Scale, 0, Scale \div 2, 2 * Scale }]

\* searches inside the domain: prices below, at and above the attainable ones
SolveGrid ==
    [option_type : { "c", "p" },
     fs : { Dec(1, 0), Dec(1, 100) },
     x : { Dec(1, 0) },
     t : { Scale \div 2 },
     r : { Scale \div 20 },
     b : { 0, Scale \div 20 },
     cp : { 0, 30, 70, 100, Scale \div 2, (3 * Scale) \div 2 }]
      \cup { [option_type |-> "p", fs |-> Dec(1, 500), x |-> Dec(1, 0),
              t |-> Scale \div 2, r |-> Scale \div 20, b |-> Scale \div 10,
              cp |-> 15] }

SolveBase ==
    [option_type |-> "c", fs |-> Dec(1, 0), x |-> Dec(1, 0), t |-> Scale \div 2,
     r |-> Scale \div 20, b |-> 0, cp |-> 70]

\* searches with one input outside the domain
SolveProbe ==
    { [SolveBase EXCEPT !.option_type = "C"] }
      \cup { [SolveBase EXCEPT !.fs = p] : p \in { Dec(0, 9), Dec(MAX32, 1) } }
      \cup { [SolveBase EXCEPT !.x = p] : p \in { Dec(0, 9), Dec(MAX32, 1) } }
      \cup { [SolveBase EXCEPT !.t = p] : p \in { -1, 0, MAX_T + 1 } }
      \cup { [SolveBase EXCEPT !.r = p] : p \in { MIN_r - 1, MAX_r + 1 } }
      \cup { [SolveBase EXCEPT !.b = p] : p \in { MIN_b - 1, MAX_b + 1 } }

\* searches for the price val_fn gives at a known volatility: the lowest,
\* a common one and the highest
RoundTrips(val_fn) ==
    { [option_type |-> p[1].option_type, fs |-> p[1].fs, x |-> p[1].x, t |-> p[1].t,
       r |-> p[1].r, b |-> p[1].b, cp |-> p[2].val[1]] :
         p \in { q \in { << g, Valuation(val_fn, g) >> :
                            g \in [option_type : { "c", "p" },
                                   fs : { Dec(1, 0), Dec(1, 100) },
                                   x : { Dec(1, 0) }, t : { Scale \div 2 },
                                   r : { Scale \div 20 }, b : { 0 },
                                   v : { MIN_V, Scale \div 4, MAX_V }] } :
                   q[2].kind = "tuple" /\ ~IsWide(q[2].val) } }

SolveArgs == SolveGrid \cup SolveProbe \cup RoundTrips("_gbs")

\* the searches made on the American pricer
AmerSolveArgs ==
    { a \in SolveGrid : a.fs = Dec(1, 0) \/ a.option_type = "c" } \cup SolveProbe
      \cup RoundTrips("_american_option")

\* precisions in micro: none, the default, one and two thousandths
Precisions == { 0, DefaultPrecision, Scale, 2 * Scale }

\* the same searches through an interface that takes a yield q for b = r - q
SolveWithYield(S) ==
    { [option_type |-> a.option_type, fs |-> a.fs, x |-> a.x, t |-> a.t,
       r |-> a.r, q |-> a.r - a.b, cp |-> a.cp] : a \in S }

\* the same searches through an interface without b
SolveWithoutCarry(S) ==
    { [option_type |-> a.option_type, fs |-> a.fs, x |-> a.x, t |-> a.t,
       r |-> a.r, cp |-> a.cp] : a \in S }

\* fn is called on a and returns or raises
Price(fn, a) ==
    /\ call' = [fn |-> fn, args |-> a]
    /\ Finish(Valuation(fn, a))
    /\ UNCHANGED << sa, nw, bs, evals, hist, peer >>

Call_gbs ==
    /\ pc = "idle"
    /\ \E a \in GbsArgs : Price("_gbs", a)

Call_american_option ==
    /\ pc = "idle"
    /\ \E a \in GbsArgs : Price("_american_option", a)

Call_bjerksund_stensland_2002 ==
    /\ pc = "idle"
    /\ \E a \in { g \in GbsArgs : g.option_type = "c" } :
          Price("_bjerksund_stensland_2002", a)

Call_bjerksund_stensland_1993 ==
    /\ pc = "idle"
    /\ \E a \in { g \in GbsArgs : g.option_type = "c" } :
          Price("_bjerksund_stensland_1993", a)

Call_black_scholes ==
    /\ pc = "idle"
    /\ \E a \in WithoutCarry(GbsArgs) : Price("black_scholes", a)

Call_merton ==
    /\ pc = "idle"
    /\ \E a \in WithYield(GbsArgs, "q") : Price("merton", a)

Call_black_76 ==
    /\ pc = "idle"
    /\ \E a \in WithoutCarry(GbsArgs) : Price("black_76", a)

Call_garman_kohlhagen ==
    /\ pc = "idle"
    /\ \E a \in WithYield(GbsArgs, "rf") : Price("garman_kohlhagen", a)

Call_asian_76 ==
    /\ pc = "idle"
    /\ \E a \in AsianArgs : Price("asian_76", a)

Call_kirks_76 ==
    /\ pc = "idle"
    /\ \E a \in KirkArgs : Price("kirks_76", a)

Call_american ==
    /\ pc = "idle"
    /\ \E a \in WithYield(GbsArgs, "q") : Price("american", a)

Call_american_76 ==
    /\ pc = "idle"
    /\ \E a \in WithoutCarry(GbsArgs) : Price("american_76", a)

Call_gbs_implied_vol ==
    /\ pc = "idle"
    /\ UNCHANGED peer
    /\ \E a \in SolveArgs, precision \in Precisions, max_steps \in 0 .. MaxSteps :
          /\ call' = [fn |-> "_gbs_implied_vol", args |-> a,
                      precision |-> precision, max_steps |-> max_steps]
          /\ _gbs_implied_vol(a.option_type, a.fs, a.x, a.t, a.r, a.b, a.cp,
                              precision, max_steps)

Call_american_implied_vol ==
    /\ pc = "idle"
    /\ UNCHANGED peer
    /\ \E a \in AmerSolveArgs, precision \in { DefaultPrecision, Scale },
          max_steps \in 0 .. MaxSteps :
          /\ call' = [fn |-> "_american_implied_vol", args |-> a,
                      precision |-> precision, max_steps |-> max_steps]
          /\ nw' = NoLocals
          /\ _american_implied_vol(a.option_type, a.fs, a.x, a.t, a.r, a.b, a.cp,
                                   precision, max_steps)

Call_euro_implied_vol ==
    /\ pc = "idle"
    /\ UNCHANGED peer
    /\ \E a \in SolveWithYield(SolveArgs) :
          /\ call' = [fn |-> "euro_implied_vol", args |-> a]
          /\ euro_implied_vol(a.option_type, a.fs, a.x, a.t, a.r, a.q, a.cp)

Call_euro_implied_vol_76 ==
    /\ pc = "idle"
    /\ UNCHANGED peer
    /\ \E a \in SolveWithoutCarry(SolveArgs) :
          /\ call' = [fn |-> "euro_implied_vol_76", args |-> a]
          /\ euro_implied_vol_76(a.option_type, a.fs, a.x, a.t, a.r, a.cp)

Call_amer_implied_vol ==
    /\ pc = "idle"
    /\ UNCHANGED peer
    /\ \E a \in SolveWithYield(AmerSolveArgs) :
          /\ call' = [fn |-> "amer_implied_vol", args |-> a]
          /\ nw' = NoLocals
          /\ amer_implied_vol(a.option_type, a.fs, a.x, a.t, a.r, a.q, a.cp)

Call_amer_implied_vol_76 ==
    /\ pc = "idle"
    /\ UNCHANGED peer
    /\ \E a \in SolveWithoutCarry(AmerSolveArgs) :
          /\ call' = [fn |-> "amer_implied_vol_76", args |-> a]
          /\ nw' = NoLocals
          /\ amer_implied_vol_76(a.option_type, a.fs, a.x, a.t, a.r, a.cp)

\* a return after which the bracket of the search stays behind
ReturnKeepingBracket ==
    /\ pc = "done"
    /\ pc' = "idle"
    /\ call' = [fn |-> "none"]
    /\ out' = NoOutcome
    /\ sa' = NoLocals
    /\ nw' = NoLocals
    /\ evals' = 0
    /\ hist' = << >>
    /\ UNCHANGED << bs, peer >>

\* the caller takes the outcome; the library keeps nothing between calls
Return ==
    /\ pc = "done"
    /\ pc' = "idle"
    /\ call' = [fn |-> "none"]
    /\ out' = NoOutcome
    /\ sa' = NoLocals
    /\ nw' = NoLocals
    /\ bs' = NoLocals
    /\ evals' = 0
    /\ hist' = << >>
    /\ UNCHANGED peer

Valuations ==
    \/ Call_gbs
    \/ Call_american_option
    \/ Call_bjerksund_stensland_2002
    \/ Call_bjerksund_stensland_1993
    \/ Call_black_scholes
    \/ Call_merton
    \/ Call_black_76
    \/ Call_garman_kohlhagen
    \/ Call_asian_76
    \/ Call_kirks_76
    \/ Call_american
    \/ Call_american_76

Searches ==
    \/ Call_gbs_implied_vol
    \/ Call_american_implied_vol
    \/ Call_euro_implied_vol
    \/ Call_euro_implied_vol_76
    \/ Call_amer_implied_vol
    \/ Call_amer_implied_vol_76
    \/ NewtonStep
    \/ BisectStep

Next == Valuations \/ Searches \/ Return

Spec == Init /\ [][Next]_vars

(***************************************************************************)
(* Two callers.  Every name a function of the library assigns is a local   *)
(* of its activation, so each caller has a frame of its own; the running   *)
(* caller's frame is in the variables and the other one's in peer.         *)
(***************************************************************************)
\* the frame of the running caller
Frame ==
    [pc |-> pc, call |-> call, out |-> out, sa |-> sa, nw |-> nw, bs |-> bs,
     evals |-> evals, hist |-> hist]

\* the other caller runs on: between any two steps of a call
Switch ==
    /\ peer' = Frame
    /\ pc' = peer.pc
    /\ call' = peer.call
    /\ out' = peer.out
    /\ sa' = peer.sa
    /\ nw' = peer.nw
    /\ bs' = peer.bs
    /\ evals' = peer.evals
    /\ hist' = peer.hist

\* the calls the two callers make: searches that converge, that fall back
\* and that fail
PairArgs ==
    { a \in SolveArgs : /\ a.fs = Dec(1, 0) /\ a.b = 0 /\ a.t = Scale \div 2
                        /\ a.r = Scale \div 20
                        /\ a.cp \in { 70, (3 * Scale) \div 2 } }

\* a caller begins a search or a valuation
Begin ==
    /\ pc = "idle"
    /\ UNCHANGED peer
    /\ \E a \in PairArgs, precision \in { 0, DefaultPrecision } :
          \/ /\ call' = [fn |-> "_gbs_implied_vol", args |-> a,
                          precision |-> precision, max_steps |-> MaxSteps]
             /\ _gbs_implied_vol(a.option_type, a.fs, a.x, a.t, a.r, a.b, a.cp,
                                 precision, MaxSteps)
          \/ /\ call' = [fn |-> "_american_implied_vol", args |-> a,
                          precision |-> precision, max_steps |-> MaxSteps]
             /\ nw' = NoLocals
             /\ _american_implied_vol(a.option_type, a.fs, a.x, a.t, a.r, a.b, a.cp,
                                      precision, MaxSteps)
          \/ /\ precision = 0
             /\ Price("_american_option",
                      [option_type |-> a.option_type, fs |-> a.fs, x |-> a.x,
                       t |-> a.t, r |-> a.r, b |-> a.b, v |-> Scale \div 4])

TwoCallers == Init /\ [][Begin \/ NewtonStep \/ BisectStep \/ Return \/ Switch]_vars

(***************************************************************************)
(* Properties of the valuations.                                           *)
(***************************************************************************)
\* the entry points that pass their arguments to _gbs
GbsEntries == { "_gbs", "black_scholes", "merton", "black_76", "garman_kohlhagen" }

\* the cost of carry b an entry point hands on
CarryOf(fn, a) ==
    CASE fn \in { "_gbs", "_american_option", "_bjerksund_stensland_2002",
                  "_bjerksund_stensland_1993" } -> a.b
      [] fn = "black_scholes" -> a.r
      [] fn \in { "merton", "american" } -> a.r - a.q
      [] fn \in { "black_76", "american_76" } -> 0
      [] fn = "garman_kohlhagen" -> a.r - a.rf

\* lo <= d <= hi on decimal literals
Within(d, lo, hi) == ~DLt(d, lo) /\ ~DLt(hi, d)

\* the documented domain, limits included
InLimits(option_type, fs, x, t, r, b, v) ==
    /\ option_type \in { "c", "p" }
    /\ Within(x, Dec(0, 10), Dec(2147483248, 0))
    /\ Within(fs, Dec(0, 10), Dec(2147483248, 0))
    /\ t >= 1 /\ t <= 100000
    /\ b >= -1000 /\ b <= 1000
    /\ r >= -1000 /\ r <= 1000
    /\ v >= 5 /\ v <= 1000

\* C1: _gbs and the entry points delegating to it raise GBS_InputError exactly
\* when option_type is not "c" or "p" or one of x, fs, t, b, r, v is outside
\* its limits; an input equal to a limit is accepted and a tuple is returned.
C1_InputErrorIffOutsideLimits ==
    (pc = "done" /\ call.fn \in GbsEntries) =>
        LET a == call.args
            ok == InLimits(a.option_type, a.fs, a.x, a.t, a.r, CarryOf(call.fn, a), a.v)
        IN  /\ (out.kind = "GBS_InputError") <=> ~ok
            /\ ok => out.kind = "tuple"

\* _gbs returned a tuple for x at its upper limit and v at its lower limit
C1_AtLimitAccepted ==
    /\ pc = "done" /\ call.fn = "_gbs"
    /\ call.args.x = Dec(2147483248, 0) /\ call.args.v = 5
    /\ out.kind = "tuple"

\* C2: on valid inputs the value of the American call pricers (2002 and 1993)
\* is at least the value of _gbs("c", ...) on the same inputs, in every branch.
C2_AmericanAtLeastEuropean ==
    (/\ pc = "done"
     /\ call.fn \in { "_bjerksund_stensland_2002", "_bjerksund_stensland_1993" }
     /\ out.kind = "tuple" /\ ~IsWide(out.val)) =>
        LET a == call.args
            e == _gbs("c", a.fs, a.x, a.t, a.r, a.b, a.v)
        IN  e.kind = "tuple" /\ out.val[1] >= e.val[1]

\* the 2002 pricer returned a continuation value that is the European value
C2_ContinuationFloored ==
    /\ pc = "done" /\ call.fn = "_bjerksund_stensland_2002"
    /\ out.kind = "tuple" /\ ~IsWide(out.val)
    /\ out.work = << "gbs", "boundary", "phi", "psi" >>
    /\ out.val[1] = _gbs("c", call.args.fs, call.args.x, call.args.t, call.args.r,
                         call.args.b, call.args.v).val[1]

\* C3: with b >= r the 2002 pricer returns exactly the tuple of _gbs("c", ...)
\* and computes no boundary constant, phi or psi; so do _american_option("c")
\* and the calls of american_76 with r <= 0.
C3_DelegationWhenCarryAtLeastRate ==
    (/\ pc = "done"
     /\ \/ call.fn = "_bjerksund_stensland_2002"
        \/ call.fn = "_american_option" /\ call.args.option_type = "c"
        \/ call.fn = "american_76" /\ call.args.option_type = "c" /\ call.args.r <= 0
     /\ CarryOf(call.fn, call.args) >= call.args.r) =>
        LET a == call.args
            e == _gbs("c", a.fs, a.x, a.t, a.r, CarryOf(call.fn, a), a.v)
        IN  IF e.kind = "tuple"
            THEN out = American(e.val, << "gbs" >>)
            ELSE out = e

\* the 2002 pricer delegated at b = r and returned a computed tuple
C3_DelegatedAtEqualCarry ==
    /\ pc = "done" /\ call.fn = "_bjerksund_stensland_2002"
    /\ call.args.b = call.args.r
    /\ out.kind = "tuple" /\ ~IsWide(out.val)
    /\ out.work = << "gbs" >>

\* C4: for inputs that pass validation, _american_option("p", fs, x, t, r, b, v)
\* returns exactly _bjerksund_stensland_2002(x, fs, t, r - b, -b, v).
C4_PutByTransformedCall ==
    (/\ pc = "done" /\ call.fn = "_american_option"
     /\ call.args.option_type = "p"
     /\ InLimits("p", call.args.fs, call.args.x, call.args.t, call.args.r,
                 call.args.b, call.args.v)) =>
        LET a == call.args
        IN  out = _bjerksund_stensland_2002(a.x, a.fs, a.t, a.r - a.b, -a.b, a.v)

\* an American put off the money with b # 0 returned a continuation value
C4_PutContinuation ==
    /\ pc = "done" /\ call.fn = "_american_option"
    /\ call.args.option_type = "p"
    /\ call.args.fs # call.args.x /\ call.args.b # 0
    /\ out.kind = "tuple" /\ ~IsWide(out.val)
    /\ out.work = << "gbs", "boundary", "phi", "psi" >>

(***************************************************************************)
(* Properties of the searches.                                             *)
(***************************************************************************)
\* the entry points that begin with _newton_implied_vol
NewtonEntries == { "_gbs_implied_vol", "euro_implied_vol", "euro_implied_vol_76" }

\* the entry points that begin with _bisection_implied_vol
BisectEntries == { "_american_implied_vol", "amer_implied_vol", "amer_implied_vol_76" }

SolveEntries == NewtonEntries \cup BisectEntries

\* the arguments the search of the running call was given
SolveCall ==
    [val_fn |-> IF call.fn \in NewtonEntries THEN "_gbs" ELSE "_american_option",
     option_type |-> call.args.option_type,
     fs |-> call.args.fs, x |-> call.args.x, t |-> call.args.t, r |-> call.args.r,
     b |-> CASE call.fn \in { "_gbs_implied_vol", "_american_implied_vol" } -> call.args.b
             [] call.fn \in { "euro_implied_vol", "amer_implied_vol" } ->
                   call.args.r - call.args.q
             [] OTHER -> 0,
     cp |-> call.args.cp,
     precision |-> IF call.fn \in { "_gbs_implied_vol", "_american_implied_vol" }
                   THEN call.precision ELSE 10,
     max_steps |-> IF call.fn \in { "_gbs_implied_vol", "_american_implied_vol" }
                   THEN call.max_steps ELSE 100]

\* C5: a volatility v returned by either search lies in [0.005, 1], and the
\* price of val_fn at that same v differs from cp by strictly less than
\* precision.
C5_ReturnedVolatilitySolves ==
    (pc = "done" /\ call.fn \in SolveEntries /\ out.kind = "float") =>
        /\ out.val >= 5 /\ out.val <= 1000
        /\ LET a == SolveCall
               p == ValFn(a.val_fn, a.option_type, a.fs, a.x, a.t, a.r, a.b, out.val)
           IN  /\ p.kind = "tuple" /\ ~IsWide(p.val)
               /\ Abs(a.cp - p.val[1]) * 1000 < a.precision

\* Newton iterated and ended with a residual not below precision, and the
\* bisection it fell back to iterated and returned a volatility
C5_ReturnedAfterFallback ==
    /\ pc = "done" /\ call.fn \in NewtonEntries
    /\ out.kind = "float"
    /\ nw.at = "end" /\ nw.countr >= 1
    /\ bs.at = "loop" /\ bs.current_step >= 1

\* C6: GBS_CalculationError is raised only by the bisection search, only with
\* the step counter at max_steps and the residual not below precision; never
\* while current_step < max_steps, a residual equal to precision included.
C6_CalculationErrorOnlyAtMaxSteps ==
    (pc = "done" /\ out.kind = "GBS_CalculationError") =>
        /\ Len(hist) >= 1 /\ bs.at = "loop"
        /\ bs.current_step = sa.max_steps
        /\ bs.diff * 1000 >= sa.precision

\* C7: when Newton ends without a residual below precision, the bisection
\* search is invoked exactly once with the same arguments, and the outcome of
\* the call is its returned volatility (within [0.005, 1]) or its
\* GBS_CalculationError.
C7_FallbackOutcome ==
    (pc = "done" /\ call.fn \in NewtonEntries /\ nw.at \in { "break", "end" }) =>
        IF nw.at = "break" \/ Abs(SolveCall.cp - nw.value) * 1000 >= SolveCall.precision
        THEN /\ hist = << SolveCall >>
             /\ \/ out.kind = "float" /\ out.val >= 5 /\ out.val <= 1000
                \/ out.kind = "GBS_CalculationError"
                     /\ out.field = "_bisection_implied_vol"
                \/ out.kind = "unmodelled"
        ELSE /\ hist = << >>
             /\ out = Float(nw.v) /\ nw.v >= 5 /\ nw.v <= 1000

\* the budget of evaluations of val_fn for a search with max_steps steps
Budget(fn, max_steps) ==
    IF fn \in NewtonEntries
    THEN (max_steps + 1) + (1 + 3 * max_steps)
    ELSE 1 + 3 * max_steps

\* the counters of a running search are within its max_steps
WithinBudget ==
    call.fn \in SolveEntries =>
        /\ nw.at # "none" => nw.countr <= SolveCall.max_steps
        /\ bs.at # "none" => bs.current_step <= SolveCall.max_steps
        /\ hist = << >> /\ call.fn \in NewtonEntries => evals <= SolveCall.max_steps + 1
        /\ evals <= Budget(call.fn, SolveCall.max_steps)
        /\ Len(hist) <= 1

\* the loop tests a running search can still make: a variant of its steps
StepsLeft ==
    CASE pc = "newton" -> (sa.max_steps - nw.countr) + 1 + (sa.max_steps + 1)
      [] pc = "bisect" -> (sa.max_steps - bs.current_step) + 1
      [] OTHER -> 0

\* a step of a running search lowers StepsLeft, which stays a natural number
StepLowers ==
    pc \in { "newton", "bisect" } => (StepsLeft' < StepsLeft /\ StepsLeft' >= 0)

\* C8: every search terminates for any max_steps >= 0: Newton makes at most
\* max_steps updates, the bisection at most max_steps iterations, and a call
\* evaluates val_fn at most (max_steps + 1) + (1 + 3 * max_steps) times.
\* Each step of a running search lowers StepsLeft.
C8_SearchTerminatesWithinBudget ==
    /\ []WithinBudget
    /\ [][StepLowers]_vars

\* a search with max_steps = 3 ended after 3 Newton updates and 3 iterations
\* of the bisection
C8_BothLoopsExhausted ==
    /\ pc = "done" /\ call.fn = "_gbs_implied_vol"
    /\ call.max_steps = 3
    /\ nw.at = "end" /\ nw.countr = 3
    /\ bs.at = "loop" /\ bs.current_step = 3

\* the public entry points
PublicEntries ==
    { "black_scholes", "merton", "black_76", "garman_kohlhagen", "asian_76",
      "kirks_76", "american", "american_76", "euro_implied_vol",
      "euro_implied_vol_76", "amer_implied_vol", "amer_implied_vol_76" }

\* some numeric input of fn is outside its validated domain
OutsideDomain(fn, a) ==
    \/ a.t < 1 \/ a.t > 100000
    \/ a.r < -1000 \/ a.r > 1000
    \/ fn # "kirks_76" /\ ~Within(a.fs, Dec(0, 10), Dec(2147483248, 0))
    \/ fn # "kirks_76" /\ ~Within(a.x, Dec(0, 10), Dec(2147483248, 0))
    \/ fn \in { "black_scholes", "merton", "black_76", "garman_kohlhagen",
                "asian_76", "american", "american_76" } /\ (a.v < 5 \/ a.v > 1000)
    \/ fn = "asian_76" /\ (a.t_a < 0 \/ a.t_a > a.t)

\* C9: a call of a public entry point with a numeric input outside its
\* validated domain ends in GBS_InputError, the check preceding the
\* arithmetic on the inputs.
C9_OutsideDomainEndsInInputError ==
    (/\ pc = "done" /\ call.fn \in PublicEntries
     /\ out.kind # "unmodelled"
     /\ OutsideDomain(call.fn, call.args)) =>
        out.kind = "GBS_InputError"

\* C10: a search ends in a returned volatility, GBS_InputError or
\* GBS_CalculationError; the secant interpolation never divides by a zero
\* cp_high - cp_low.
C10_OnlyTypedErrors ==
    (pc = "done" /\ call.fn \in SolveEntries
     /\ InLimits(SolveCall.option_type, SolveCall.fs, SolveCall.x, SolveCall.t,
                 SolveCall.r, SolveCall.b, 5)) =>
        out.kind \in { "float", "GBS_InputError", "GBS_CalculationError", "unmodelled" }

\* ---- Properties of the error messages and of the American put ----

\* the argument of the call that an input error on a field is about
Supplied(a, field) == a[field]

\* the limits of a field, as the table holds them
RangeOf(field) ==
    CASE field = "x" -> << MIN_X, MAX_X >>
      [] field = "fs" -> << MIN_FS, MAX_FS >>
      [] field = "t" -> << MIN_T, MAX_T >>
      [] field = "b" -> << MIN_b, MAX_b >>
      [] field = "r" -> << MIN_r, MAX_r >>
      [] field = "v" -> << MIN_V, MAX_V >>

\* C11: every GBS_InputError raised for a field outside its limits shows the
\* value that was supplied and the least and greatest value the field may
\* take, for x, fs, t, b, r, v and the averaging time t_a alike.
C11_InputErrorShowsValueAndRange ==
    (pc = "done" /\ call.fn \in { "_gbs", "asian_76" }
       /\ out.kind = "GBS_InputError" /\ out.field # "option_type")
      => /\ Len(out.shown) = 3
         /\ out.shown[1] = Supplied(call.args, out.field)
         /\ out.field # "t_a" => << out.shown[2], out.shown[3] >> = RangeOf(out.field)
         /\ out.field = "t_a" => << out.shown[2], out.shown[3] >> = << MIN_TA, call.args.t >>

\* C12: for an American put the transformed inputs are the ones validated:
\* _american_option("p", ...) raises GBS_InputError exactly when
\* (x, fs, t, r - b, -b, v) is outside the limits.
C12_PutValidatedAfterTransform ==
    (pc = "done" /\ call.fn = "_american_option" /\ call.args.option_type = "p")
      => ((out.kind = "GBS_InputError")
            <=> ~InLimits("c", call.args.x, call.args.fs, call.args.t,
                          call.args.r - call.args.b, -call.args.b, call.args.v))

\* C13: _american_option raises no GBS_InputError on a call whose six
\* numbers are all within their limits, for a call and for a put.
C13_NoInputErrorWithinLimits ==
    (pc = "done" /\ call.fn = "_american_option"
       /\ InLimits(call.args.option_type, call.args.fs, call.args.x, call.args.t,
                   call.args.r, call.args.b, call.args.v))
      => out.kind # "GBS_InputError"

\* the outcome of the kernel fn on the arguments of the call, with carry b
KernelWith(fn, a, b) == Call(fn, << a.option_type, a.fs, a.x, a.t, a.r, b, a.v >>)

\* C14: every facade returns what its kernel returns on the same arguments
\* with r unchanged and its own carry: black_scholes b = r, merton b = r - q,
\* black_76 b = 0, garman_kohlhagen b = r - rf (so it agrees with merton on
\* the same tuple), american b = r - q and american_76 b = 0 on
\* _american_option.
C14_FacadeIsKernelWithCarry ==
    pc = "done" =>
      /\ call.fn = "black_scholes" => out = KernelWith("_gbs", call.args, call.args.r)
      /\ call.fn = "merton"
           => out = KernelWith("_gbs", call.args, call.args.r - call.args.q)
      /\ call.fn = "black_76" => out = KernelWith("_gbs", call.args, 0)
      /\ call.fn = "garman_kohlhagen"
           => /\ out = KernelWith("_gbs", call.args, call.args.r - call.args.rf)
              /\ out = merton(call.args.option_type, call.args.fs, call.args.x,
                              call.args.t, call.args.r, call.args.rf, call.args.v)
      /\ call.fn = "american"
           => out = KernelWith("_american_option", call.args, call.args.r - call.args.q)
      /\ call.fn = "american_76" => out = KernelWith("_american_option", call.args, 0)

\* garman_kohlhagen has priced a call whose r and rf differ
C14_CurrencyOptionPriced ==
    /\ pc = "done" /\ call.fn = "garman_kohlhagen"
    /\ call.args.rf # call.args.r /\ call.args.rf # 0
    /\ out.kind = "tuple" /\ ~IsWide(out.val)

\* ---- Properties of the routing of the searches ----

\* C15: a search on the American pricer runs only the bisection over
\* _american_option and never makes a Newton update; a search on the
\* European pricer runs the Newton search over _gbs first; in both, every
\* evaluation of the pricer is made on the caller's fs, x, t, r and b, each
\* in its own role.
C15_SearchRouting ==
    (call.fn \in SolveEntries /\ pc \in { "newton", "bisect", "done" }) =>
      /\ sa = SolveCall
      /\ call.fn \in BisectEntries
           => /\ pc # "newton" /\ nw = NoLocals
              /\ hist = << SolveCall >> /\ sa.val_fn = "_american_option"
      /\ call.fn \in NewtonEntries
           => /\ sa.val_fn = "_gbs"
              /\ pc = "newton" => hist = << >> /\ nw.at = "loop"
              /\ pc = "bisect" => hist = << SolveCall >> /\ nw.at \in { "break", "end" }
              /\ hist # << >> => hist = << SolveCall >> /\ nw.at \in { "break", "end" }

\* a Newton search on fs # x and r # b has made an update and evaluated _gbs
C15_NewtonUpdatedOffTheMoney ==
    /\ pc = "newton" /\ call.fn \in NewtonEntries
    /\ nw.countr >= 1
    /\ call.args.fs # call.args.x /\ sa.r # sa.b

\* ---- Properties of asian_76 ----

\* C16: asian_76 with the averaging starting at expiry, t_a = t, returns
\* exactly what black_76 returns on the same option_type, fs, x, t, r and v.
C16_AsianAtExpiryIsBlack76 ==
    (pc = "done" /\ call.fn = "asian_76" /\ call.args.t_a = call.args.t)
      => out = Call("black_76", << call.args.option_type, call.args.fs, call.args.x,
                                   call.args.t, call.args.r, call.args.v >>)

\* asian_76 has priced an option with t_a = t
C16_PricedWithoutAveraging ==
    /\ pc = "done" /\ call.fn = "asian_76" /\ call.args.t_a = call.args.t
    /\ out.kind = "tuple" /\ ~IsWide(out.val)

\* C17: asian_76 raises the GBS_InputError on the averaging time exactly when
\* t_a < 0 or t_a > t, with t_a = 0 and t_a = t accepted, and it does so
\* before anything else is looked at, whatever the other arguments are,
\* option_type included.
C17_AveragingTimeCheckedFirst ==
    (pc = "done" /\ call.fn = "asian_76")
      => ((out.kind = "GBS_InputError" /\ out.field = "t_a")
            <=> (call.args.t_a < 0 \/ call.args.t_a > call.args.t))

\* the averaging time was rejected on a call whose option_type is no type
C17_RejectedBeforeOptionType ==
    /\ pc = "done" /\ call.fn = "asian_76"
    /\ call.args.option_type \notin { "c", "p" }
    /\ out.kind = "GBS_InputError" /\ out.field = "t_a"

\* ---- Properties of calls that follow or overlap one another ----

\* how far a call has come: where it stands and the iterations it has made
Position(f) ==
    << f.pc, IF f.nw.at = "none" THEN -1 ELSE f.nw.countr,
       IF f.bs.at = "none" THEN -1 ELSE f.bs.current_step >>

\* C18: no call leaves anything behind: once it has returned, nothing of it
\* is kept, and the outcome of a call (the tuple, the volatility or the error)
\* depends on its arguments only, so two calls with the same arguments end
\* alike whatever calls either caller made before.
C18_NothingOutlivesACall ==
    /\ pc = "idle" =>
          /\ call = [fn |-> "none"] /\ out = NoOutcome
          /\ sa = NoLocals /\ nw = NoLocals /\ bs = NoLocals
          /\ evals = 0 /\ hist = << >>
    /\ (pc = "done" /\ peer.pc = "done" /\ call = peer.call) => out = peer.out

\* both callers hold the volatility the same search returned to each
C18_SameSearchTwice ==
    /\ pc = "done" /\ peer.pc = "done" /\ call = peer.call
    /\ call.fn = "_gbs_implied_vol" /\ out.kind = "float"

\* a step of the running call leaves the other call as it is, and a switch
\* leaves both as they are
OthersUntouched == peer' = peer \/ (peer' = Frame /\ Frame' = peer)

\* C19: searches that run at the same time, their steps interleaved in any
\* order, end as they end alone: no step of one reads or writes the
\* bracket, the guess or the counter of another, so two searches with the
\* same arguments that have come equally far hold the same locals and the
\* same outcome.
C19_InterleavedSearchesAgree ==
    /\ []((call = peer.call /\ call.fn \in SolveEntries
            /\ Position(Frame) = Position(peer)) => Frame = peer)
    /\ []((pc = "done" /\ peer.pc = "done" /\ call = peer.call /\ call.fn \in SolveEntries)
            => (out = peer.out /\ nw = peer.nw /\ bs = peer.bs))
    /\ [][OthersUntouched]_vars

\* two searches are under way at once, each past its first iteration
C19_BothSearchesUnderWay ==
    /\ pc = "bisect" /\ peer.pc \in { "newton", "bisect" }
    /\ bs.current_step >= 1
    /\ Position(peer)[2] >= 1 \/ Position(peer)[3] >= 1
    /\ call # peer.call

\* ---- Properties of a search for a price the pricer gave ----

\* cp is the price val_fn gives on the arguments of the running search at
\* volatility v, which is within [MIN_V, MAX_V]
PriceAt(v) ==
    /\ v >= MIN_V /\ v <= MAX_V
    /\ Eval(SolveCall, v).kind = "tuple"
    /\ ~IsWide(Eval(SolveCall, v).val)
    /\ Eval(SolveCall, v).val[1] = call.args.cp

\* the price val_fn gives on the arguments of the running search at v
PriceOf(v) == Eval(SolveCall, v).val[1]

\* the price cp tells v from the volatilities 0.01 below and above it, as
\* far as these are within [MIN_V, MAX_V]
Separates(v) ==
    /\ v - Scale \div 100 >= MIN_V
         => /\ PriceAt(v) /\ Eval(SolveCall, v - Scale \div 100).kind = "tuple"
            /\ PriceOf(v - Scale \div 100) < call.args.cp
    /\ v + Scale \div 100 <= MAX_V
         => /\ PriceAt(v) /\ Eval(SolveCall, v + Scale \div 100).kind = "tuple"
            /\ PriceOf(v + Scale \div 100) > call.args.cp

\* a search with the default precision and max_steps has ended with a volatility
RoundTripReturned ==
    /\ pc = "done" /\ call.fn \in { "euro_implied_vol", "amer_implied_vol" }
    /\ out.kind = "float"

GbsPriced ==
    /\ pc = "done" /\ call.fn = "_gbs"
    /\ out.kind = "tuple" /\ ~IsWide(out.val)

\* the value _gbs gives on the arguments of the call with the given type
ValueAs(option_type) ==
    IF call.args.option_type = option_type
    THEN out.val[1]
    ELSE Call("_gbs", << option_type, call.args.fs, call.args.x, call.args.t,
                         call.args.r, call.args.b, call.args.v >>).val[1]

\* call minus put minus (fs * exp((b - r) * t) - x * exp(-r * t)), in the
\* units of the arithmetic
ParityGap ==
    ValueAs("c") - ValueAs("p")
      - (Mul(ToFix(call.args.fs), Exp(Mul(call.args.b - call.args.r, call.args.t)))
           - Mul(ToFix(call.args.x), Exp(Mul(-call.args.r, call.args.t))))

ExercisedAtOnce ==
    /\ pc = "done" /\ call.fn = "_bjerksund_stensland_2002"
    /\ out.kind = "tuple" /\ ~IsWide(out.val)
    /\ out.work = << "gbs", "boundary", "exercise" >>

\* the value of _gbs("c", ...) on the arguments of the call
EuropeanCall ==
    Call("_gbs", << "c", call.args.fs, call.args.x, call.args.t,
                    call.args.r, call.args.b, call.args.v >>).val

\* C22 as stated: in the immediate-exercise region of the American call
\* pricer (b < r and fs >= i2) the value returned is fs - x.
C22_ExerciseValueIsIntrinsic ==
    ExercisedAtOnce => out.val[1] = ToFix(call.args.fs) - ToFix(call.args.x)

\* C22, amended: in the immediate-exercise region of the American call
\* pricer the value returned is the larger of fs - x and the value of the
\* European call.
C22_ExerciseValueIsFlooredIntrinsic ==
    ExercisedAtOnce =>
        /\ call.args.b < call.args.r
        /\ out.val[1] = Max(ToFix(call.args.fs) - ToFix(call.args.x), EuropeanCall[1])

\* the call pricer has returned fs - x from the immediate-exercise branch,
\* above the European value
C22_ExercisedAboveEuropean ==
    /\ ExercisedAtOnce
    /\ out.val[1] = ToFix(call.args.fs) - ToFix(call.args.x)
    /\ out.val[1] > EuropeanCall[1]

\* ---- Properties of the bracket of the bisection search ----

\* the bisection search is at the head of its loop
InBisection == pc = "bisect" /\ bs.at = "loop"

\* v_low <= v_mid <= v_high
Ordered(b) == b.v_low <= b.v_mid /\ b.v_mid <= b.v_high

\* a step of the bisection search that has cut the bracket
Iterated == InBisection /\ bs'.current_step = bs.current_step + 1

\* exactly one endpoint has become the previous v_mid: v_low when
\* cp_mid < cp, v_high otherwise
EndpointMoved ==
    IF bs.cp_mid < sa.cp
    THEN bs'.v_low = bs.v_mid /\ bs'.v_high = bs.v_high
    ELSE bs'.v_high = bs.v_mid /\ bs'.v_low = bs.v_low

\* cp lies between the prices at the endpoints of the cut bracket
Bracketing ==
    LET cp_low == Eval(sa, bs'.v_low).val[1]
        cp_high == Eval(sa, bs'.v_high).val[1]
    IN  /\ bs'.v_low <= bs'.v_high
        /\ \/ cp_low <= sa.cp /\ sa.cp <= cp_high
           \/ cp_high <= sa.cp /\ sa.cp <= cp_low

\* an iteration keeps v_low <= v_mid <= v_high and does not widen the bracket
BracketKept ==
    (Iterated /\ pc' = "bisect") =>
        /\ EndpointMoved
        /\ Ordered(bs')
        /\ bs'.v_high - bs'.v_low <= bs.v_high - bs.v_low

\* an iteration moves one endpoint to the previous v_mid; the new v_mid is
\* within [MIN_V, MAX_V], and within the bracket if cp lies between the
\* prices at its endpoints
EndpointCut ==
    Iterated =>
        /\ EndpointMoved
        /\ pc' = "bisect" =>
              /\ bs'.v_mid >= MIN_V /\ bs'.v_mid <= MAX_V
              /\ Bracketing => Ordered(bs')

\* C23 as stated: in _bisection_implied_vol the bracket is a loop invariant:
\* v_low <= v_mid <= v_high at the start and after every iteration, exactly
\* one endpoint is replaced by the previous midpoint per iteration (v_low when
\* cp_mid < cp, else v_high), and the width never increases.
C23_BracketIsLoopInvariant ==
    /\ [](InBisection => Ordered(bs))
    /\ [][BracketKept]_vars

\* C23, amended: v_low <= v_mid <= v_high holds at the start of the loop;
\* every iteration replaces exactly one endpoint by the previous v_mid (v_low
\* when cp_mid < cp, else v_high); the new v_mid is the secant point clamped
\* to [MIN_V, MAX_V], which lies in the bracket if cp lies between the prices
\* at the endpoints.
C23_EndpointMovesToMidpoint ==
    /\ []((InBisection /\ bs.current_step = 0) => Ordered(bs))
    /\ [][EndpointCut]_vars

\* the bisection search after two iterations with v_mid inside the bracket
C23_TwiceCutAroundMidpoint ==
    /\ InBisection /\ bs.current_step >= 2
    /\ bs.v_low < bs.v_mid /\ bs.v_mid < bs.v_high

\* the seed of the running search
SeedOf ==
    Call("_approx_implied_vol",
         << sa.option_type, sa.fs, sa.x, sa.t, sa.r, sa.b, sa.cp >>).val

\* the bisection search is at the head of its loop before the first iteration
AtBracket == InBisection /\ bs.current_step = 0

FullRange ==
    /\ bs.v_low = MIN_V /\ bs.v_high = MAX_V
    /\ bs.v_mid = RDiv(MIN_V + MAX_V, 2)

HalfAround(s) ==
    /\ bs.v_low = Max(MIN_V, Mul(s, Scale \div 2))
    /\ bs.v_high = Min(MAX_V, Mul(s, 3 * (Scale \div 2)))
    /\ bs.v_mid = s

\* C24: _bisection_implied_vol initialises its bracket from the seed s: a
\* seed outside [MIN_V, MAX_V] gives the full range with v_mid at its middle;
\* a seed inside, MIN_V and MAX_V included, gives v_low = max(MIN_V, 0.5 * s),
\* v_high = min(MAX_V, 1.5 * s) and v_mid = s.
C24_BracketFromSeed ==
    AtBracket =>
        IF SeedOf < MIN_V \/ SeedOf > MAX_V THEN FullRange ELSE HalfAround(SeedOf)

\* what the bracket is: a seed at or outside a limit of v gives the full
\* range, a seed strictly inside gives the bracket of half the seed around it
BracketFromSeedStrictlyInside ==
    AtBracket =>
        IF SeedOf <= MIN_V \/ SeedOf >= MAX_V THEN FullRange ELSE HalfAround(SeedOf)

\* the bisection search has set its bracket from a seed equal to a limit of v
C24_SeedAtLimit == AtBracket /\ SeedOf \in { MIN_V, MAX_V }

\* ---- Properties of the loop of the Newton search ----

\* the residual |cp - value| of the Newton search, in micro units
NewtonResidual(n) == Abs(sa.cp - n.value) * Scale

\* a step of the Newton search that computes a further v
NewtonUpdates ==
    /\ pc = "newton"
    /\ \/ nw'.countr = nw.countr + 1
       \/ nw'.at = "break"
       \/ nw'.v # nw.v

\* an update happens only with the residual at or above precision, not above
\* min_diff, and countr below max_steps
UpdateGuarded ==
    NewtonUpdates =>
        /\ NewtonResidual(nw) >= sa.precision
        /\ NewtonResidual(nw) <= nw.min_diff * Scale
        /\ nw.countr < sa.max_steps

\* min_diff does not increase, and is the smallest residual seen
BestKept ==
    pc = "newton" =>
        /\ nw'.min_diff <= nw.min_diff
        /\ nw'.min_diff <= Abs(sa.cp - nw'.value) \/ nw'.at = "break"

\* with a residual above the best seen before, the next step leaves the loop
LeftWhenWorse ==
    (pc = "newton" /\ Abs(sa.cp - nw.value) > nw.min_diff) =>
        (nw'.at = "end" /\ nw'.v = nw.v /\ nw'.countr = nw.countr)

\* C25: the Newton loop performs a further update only while the residual is
\* at or above precision, not worse than min_diff, the smallest residual seen
\* so far, and countr < max_steps; min_diff never increases, and the loop is
\* left at the first update whose residual is larger than the best seen
\* before it.
C25_NewtonUpdatesWhileImproving ==
    /\ [][UpdateGuarded]_vars
    /\ [][BestKept]_vars
    /\ [][LeftWhenWorse]_vars

\* the Newton search has left its loop, with steps to spare, on an update
\* whose residual is above precision and above the best seen before it
C25_LeftOnWorseResidual ==
    /\ pc \in { "bisect", "done" } /\ nw.at = "end"
    /\ nw.countr >= 1 /\ nw.countr < sa.max_steps
    /\ Abs(sa.cp - nw.value) > nw.min_diff
    /\ NewtonResidual(nw) >= sa.precision

\* ---- Properties of the volatilities the searches evaluate ----

InRangeOfV(v) == v >= MIN_V /\ v <= MAX_V

\* the v the Newton search has evaluated last, and the three volatilities of
\* the bisection search, are within [MIN_V, MAX_V]
EvaluatedInRange ==
    /\ nw.at \in { "loop", "end" } => InRangeOfV(nw.v)
    /\ bs.at = "loop" =>
          InRangeOfV(bs.v_low) /\ InRangeOfV(bs.v_mid) /\ InRangeOfV(bs.v_high)

\* a step of the Newton search that evaluates val_fn does so within the range
UpdateInRange ==
    (pc = "newton" /\ evals' = evals + 1 /\ bs' = bs) => InRangeOfV(nw'.v)

\* no search ends in an input error about v
NoInputErrorOnV ==
    (pc = "done" /\ call.fn \in SolveEntries /\ out.kind = "GBS_InputError")
      => out.field # "v"

\* C26: in both searches every volatility handed to val_fn lies in
\* [MIN_V, MAX_V]: the Newton seed is clamped before its first evaluation and
\* an updated v is evaluated only after the range check; v_low, v_mid and
\* v_high of the bisection are within the range at every evaluation; hence no
\* search ends in a GBS_InputError about the volatility.
C26_EvaluatedVolatilityInRange ==
    /\ [](EvaluatedInRange /\ NoInputErrorOnV)
    /\ [][UpdateInRange]_vars

\* the bisection search has iterated to a v_mid that the clamp put on a
\* limit of v
C26_MidpointClampedToLimit ==
    /\ InBisection /\ bs.current_step >= 1
    /\ bs.v_mid \in { MIN_V, MAX_V }
    /\ bs.v_mid \notin { bs.v_low, bs.v_high }

\* ---- Properties of the error of the bisection search ----

\* the midpoints the running search evaluates from the head of the loop with
\* bracket lo, hi, midpoint mid priced cp_mid and n iterations made, each with
\* its residual |cp - price|
RECURSIVE MidpointsFrom(_, _, _, _, _)
MidpointsFrom(lo, hi, mid, cp_mid, n) ==
    LET here == << << mid, Abs(sa.cp - cp_mid) >> >>
        v_low == IF cp_mid < sa.cp THEN mid ELSE lo
        v_high == IF cp_mid < sa.cp THEN hi ELSE mid
        cp_low == Eval(sa, v_low)
        cp_high == Eval(sa, v_high)
        v_mid == Secant(v_low, v_high, cp_low.val[1], cp_high.val[1])
        next == Eval(sa, v_mid)
    IN  IF ~(ResidualAbove(Abs(sa.cp - cp_mid), sa.precision) /\ n < sa.max_steps)
        THEN here
        ELSE IF ~HasPrice(cp_low) \/ ~HasPrice(cp_high) THEN here
        ELSE IF cp_high.val[1] = cp_low.val[1] THEN here
        ELSE IF ~HasPrice(next) THEN here
        ELSE here \o MidpointsFrom(v_low, v_high, v_mid, next.val[1], n + 1)

\* the midpoints of the running search, from the one in the middle of its
\* first bracket
Midpoints ==
    LET br == Bracket(SeedOf)
    IN  MidpointsFrom(br[1], br[2], br[3], Eval(sa, br[3]).val[1], 0)

\* the bisection search has raised GBS_CalculationError
BisectionFailed ==
    /\ pc = "done" /\ out.kind = "GBS_CalculationError"
    /\ bs.at = "loop"

\* C27 as stated: when _bisection_implied_vol raises GBS_CalculationError
\* the error reports the required precision, and as best guess the evaluated
\* midpoint with the smallest residual among all midpoints evaluated, with
\* the residual of that midpoint (smallest up to the rounding of the prices).
C27_ErrorReportsBestMidpoint ==
    BisectionFailed =>
        LET evaluated == Midpoints
        IN  /\ out.shown[3] = sa.precision
            /\ \E i \in DOMAIN evaluated :
                  evaluated[i] = << out.shown[1], out.shown[2] >>
            /\ \A i \in DOMAIN evaluated : out.shown[2] <= evaluated[i][2] + 2

\* C27, amended: when _bisection_implied_vol raises GBS_CalculationError the
\* error reports the required precision, the v_mid the loop ended with, which
\* is the last midpoint evaluated, and the residual of that midpoint.
C27_ErrorReportsLastMidpoint ==
    BisectionFailed =>
        /\ out.shown = << bs.v_mid, bs.diff, sa.precision >>
        /\ bs.cp_mid = Eval(sa, bs.v_mid).val[1]
        /\ bs.diff = Abs(sa.cp - bs.cp_mid)

\* the bisection search has raised GBS_CalculationError after iterating
C27_FailedAfterIterations ==
    /\ BisectionFailed /\ bs.current_step >= 2
    /\ out.shown[2] > 0

\* ---- Properties of the Greeks of the American pricers ----

\* an American pricer has returned a tuple that the fixed point holds
AmericanPriced ==
    /\ pc = "done"
    /\ call.fn \in { "_american_option", "_bjerksund_stensland_2002",
                      "_bjerksund_stensland_1993" }
    /\ out.kind = "tuple" /\ ~IsWide(out.val)

\* the tuple of _gbs("c", ...) on the arguments the call pricer received: for
\* a put through _american_option, (x, fs, t, r - b, -b, v)
EuropeanOfReceived ==
    IF call.fn = "_american_option" /\ call.args.option_type = "p"
    THEN Call("_gbs", << "c", call.args.x, call.args.fs, call.args.t,
                         call.args.r - call.args.b, -call.args.b, call.args.v >>).val
    ELSE EuropeanCall

KirkScale == ToFix(call.args.f2) + ToFix(call.args.x)

\* the synthetic fs = f1 / (f2 + x) of the call of kirks_76
KirkFs == ToDec(Div(ToFix(call.args.f1), KirkScale))

\* the combined volatility of the call of kirks_76
KirkV ==
    Sqrt(KirkVar(ToFix(call.args.f1), ToFix(call.args.f2), ToFix(call.args.x),
                 call.args.v1, call.args.v2, call.args.corr))

\* kirks_76 has ended past the arithmetic on its own arguments
KirkEnded ==
    /\ pc = "done" /\ call.fn = "kirks_76"
    /\ out.kind \notin { "unmodelled", "ZeroDivisionError", "ValueError" }

====
